---- MODULE Spec2Model ----
(***************************************************************************)
(* Court reservation, coin ledger and payment-log handlers of the          *)
(* pickleball club backend, as a state machine over the stored documents.  *)
(* Every handler is split at its database accesses (each `await` on a      *)
(* model call is one atomic step); the request's local variables live in   *)
(* proc[p] between the steps.                                              *)
(***************************************************************************)
EXTENDS Integers, Sequences, FiniteSets, TLC

VARIABLES
    users,          \* User collection: account id -> document
    reservations,   \* CourtReservation collection, _id = position
    transactions,   \* CoinTransaction collection, in insertion order
    paymentLogs,    \* PaymentLog collection, _id = position
    clock,          \* position of the wall clock on Timeline
    proc,           \* per request slot: the handler in flight and its locals
    faults,         \* storage faults injected so far
    bal0            \* history: every account's balance in the initial state

vars == <<users, reservations, transactions, paymentLogs, clock, proc, faults, bal0>>

---------------------------------------------------------------------------
(* Bounds of the model *)

MaxRes == 2
MaxTx == 3
MaxLogs == 2
MaxFaults == 1
NumProcs == 2

Procs == 1..NumProcs

---------------------------------------------------------------------------
(* Program constants *)

COURT_RESERVATION == 10
FREE_COINS_FOR_NEW_USER == 100
MinDuration == 1
MaxDuration == 8
HOMEOWNER_RATE == 25
NON_HOMEOWNER_RATE == 50
MINIMUM_TOTAL == 100

Accounts == {"u1", "u2", "sa"}

(* A time label "HH:00" is the pair of its hour digits; the database        *)
(* compares labels as strings, the controller parses the hour out of them.  *)
NoLabel == <<>>

Pad(h) == <<h \div 10, h % 10>>

parseHour(l) == 10 * l[1] + l[2]

TIME_SLOTS == [i \in 1..18 |-> Pad(i + 4)]

isTimeSlot(l) == \E i \in 1..Len(TIME_SLOTS) : TIME_SLOTS[i] = l

(* String order of two labels of equal length ($lt, $lte of the queries) *)
(* String order of two labels; a field that is not set compares with none *)
StrLt(a, b) ==
    /\ a # NoLabel
    /\ b # NoLabel
    /\ (a[1] < b[1] \/ (a[1] = b[1] /\ a[2] < b[2]))

StrLte(a, b) == a # NoLabel /\ b # NoLabel /\ (a = b \/ StrLt(a, b))

generateTimeSlotsBetween(startTime, endTime) ==
    {Pad(h) : h \in parseHour(startTime)..(parseHour(endTime) - 1)}

calculateDuration(startTime, endTime) == parseHour(endTime) - parseHour(startTime)

Statuses == {"pending", "confirmed", "cancelled", "completed"}

(* The wall clock only ever stands at one of these instants *)
Timeline == <<[day |-> 0, hour |-> 8], [day |-> 0, hour |-> 12], [day |-> 1, hour |-> 8]>>

Now == Timeline[clock]

Today == Now.day

---------------------------------------------------------------------------
(* Documents *)

WelcomeBonus(u) ==
    [userId |-> u, type |-> "earned", amount |-> FREE_COINS_FOR_NEW_USER,
     referenceId |-> 0, status |-> "approved"]

RegisteredUser(r, paid, h) ==
    [coinBalance |-> FREE_COINS_FOR_NEW_USER, role |-> r, membershipFeesPaid |-> paid,
     homeownerStatus |-> h, isApproved |-> TRUE]

(* proc[p].bal before the handler has loaded the user document *)
NoBalance == -1

(* proc[p].timeSlots and proc[p].days before a schedule has been built *)
NoSchedule == <<>>

(* proc[p].data before a payment calculation has been made *)
NoData ==
    [playerPayments |-> [u \in {} |-> 0],
     summary |-> [duration |-> 0, homeownerCount |-> 0, nonHomeownerCount |-> 0,
                  homeownerRatePerHour |-> <<0, 1>>, nonHomeownerRatePerHour |-> <<0, 1>>,
                  totalPerHour |-> 0, grandTotal |-> 0]]

IdleProc(r) ==
    [pc |-> "idle", op |-> "none", actor |-> "none", rid |-> 0, date |-> 0,
     startTime |-> NoLabel, endTime |-> NoLabel, timeSlot |-> NoLabel,
     players |-> {}, amount |-> 0, numDays |-> 0, field |-> "none", value |-> "none",
     bal |-> NoBalance, data |-> NoData, timeSlots |-> NoSchedule,
     days |-> NoSchedule, resp |-> r]

Init ==
    /\ users = [u \in Accounts |->
                  IF u = "sa" THEN RegisteredUser("superadmin", TRUE, "homeowner")
                  ELSE IF u = "u1" THEN RegisteredUser("member", TRUE, "homeowner")
                  ELSE RegisteredUser("member", FALSE, "non-homeowner")]
    /\ reservations = <<>>
    /\ transactions = <<WelcomeBonus("u1"), WelcomeBonus("u2"), WelcomeBonus("sa")>>
    /\ paymentLogs = <<>>
    /\ clock = 1
    /\ proc = [p \in Procs |-> IdleProc("none")]
    /\ faults = 0
    /\ bal0 = [u \in Accounts |-> FREE_COINS_FOR_NEW_USER]

---------------------------------------------------------------------------
(* Helpers over the request slots *)

Running(q) == proc[q].pc \notin {"idle", "responded"}

AllIdle == \A q \in Procs : ~Running(q)

InFlight(ops) == Cardinality({q \in Procs : Running(q) /\ proc[q].op \in ops})

(* The handler answers: the response stays visible until Respond delivers it *)
Finish(p, r) == proc' = [proc EXCEPT ![p].pc = "responded", ![p].resp = r]

(* The handler takes up request req, and goes on at label *)
Begin(p, req, label) == proc' = [proc EXCEPT ![p] = [req EXCEPT !.pc = label]]

(* The handler answers request req with r at once *)
Reject(p, req, r) ==
    proc' = [proc EXCEPT ![p] = [req EXCEPT !.pc = "responded", !.resp = r]]

(* The response has left: the slot is free for the next request *)
Respond(p) ==
    /\ proc[p].pc = "responded"
    /\ proc' = [proc EXCEPT ![p] = IdleProc("none")]
    /\ UNCHANGED <<users, reservations, transactions, paymentLogs, clock, faults, bal0>>

Goto(p, label) == proc' = [proc EXCEPT ![p].pc = label]

(* Room left in the bounded collections for one more request *)
RoomForTx ==
    Len(transactions)
        + InFlight({"create", "cancel", "grant", "deduct", "request", "approve"})
        < Cardinality(Accounts) + MaxTx

RoomForRes == Len(reservations) + InFlight({"create"}) < MaxRes

RoomForLogs == Len(paymentLogs) + InFlight({"paylog"}) < MaxLogs

---------------------------------------------------------------------------
(* CourtReservation model: queries and save *)

(* Variant: cancelled bookings are matched too *)
LiveOrCancelled(r) == r.status \in Statuses

(* status: { $ne: 'cancelled' } *)
Live(r) == r.status # "cancelled"

(* $or of the controller's range query (createReservation) *)
RangeOverlapQuery(r, date, startTime, endTime) ==
    /\ r.date = date
    /\ Live(r)
    /\ \/ StrLte(r.startTime, startTime) /\ StrLt(startTime, r.endTime)
       \/ StrLt(r.startTime, endTime) /\ StrLte(endTime, r.endTime)
       \/ StrLte(startTime, r.startTime) /\ StrLte(r.endTime, endTime)
       \/ r.timeSlot \in generateTimeSlotsBetween(startTime, endTime)

(* The controller's legacy single-slot query *)
LegacySlotQuery(r, date, startTime) ==
    /\ r.date = date
    /\ Live(r)
    /\ \/ r.timeSlot = startTime
       \/ StrLte(r.startTime, startTime) /\ StrLt(startTime, r.endTime)

(* The query of the pre('save') hook of a new document *)
PreSaveQuery(r, date, startTime, endTime, timeSlot) ==
    /\ r.date = date
    /\ Live(r)
    /\ IF startTime # NoLabel /\ endTime # NoLabel
       THEN \/ StrLte(r.startTime, startTime) /\ StrLt(startTime, r.endTime)
            \/ StrLt(r.startTime, endTime) /\ StrLte(endTime, r.endTime)
            \/ StrLte(startTime, r.startTime) /\ StrLte(r.endTime, endTime)
            \/ r.timeSlot # NoLabel
       ELSE IF timeSlot # NoLabel
       THEN \/ r.timeSlot = timeSlot
            \/ StrLte(r.startTime, timeSlot) /\ StrLt(timeSlot, r.endTime)
       ELSE TRUE

(* Schema validators that run on every save of a reservation document *)
ReservationValid(r) ==
    /\ r.date >= Today
    /\ isTimeSlot(r.startTime)
    /\ isTimeSlot(r.endTime)
    /\ r.timeSlot = NoLabel \/ isTimeSlot(r.timeSlot)
    /\ r.duration >= MinDuration /\ r.duration <= MaxDuration
    /\ r.players # {}
    /\ r.status \in Statuses

(* min: 0 validator of User.coinBalance *)
CoinBalanceValid(b) == b >= 0

(* user.save() after an in-memory change of coinBalance: the document's     *)
(* value is written with $set, whatever the stored value is by then.        *)
SavedBalance(stored, doc) == doc

CoinTx(u, type, amount, ref) ==
    [userId |-> u, type |-> type, amount |-> amount, referenceId |-> ref,
     status |-> "approved"]

IsExempt(u) == users[u].role = "superadmin"

---------------------------------------------------------------------------
(* createReservation *)

ReqStart(startTime, timeSlot) == IF startTime # NoLabel THEN startTime ELSE timeSlot

ReqDuration(startTime, endTime) ==
    IF endTime # NoLabel THEN calculateDuration(startTime, endTime) ELSE 1

TotalCost(startTime, endTime) == ReqDuration(startTime, endTime) * COURT_RESERVATION

(* Variant: the conflict query runs before the range is validated *)
CreateCheckConflictFirst(date, startTime, endTime) ==
    IF date < Today THEN "InvalidDate"
    ELSE IF startTime = NoLabel THEN "StartRequired"
    ELSE IF endTime # NoLabel
    THEN IF \E i \in 1..Len(reservations) :
                RangeOverlapQuery(reservations[i], date, startTime, endTime)
         THEN "SlotConflict"
         ELSE IF ~isTimeSlot(startTime) \/ ~isTimeSlot(endTime) THEN "InvalidRange"
         ELSE IF parseHour(endTime) <= parseHour(startTime) THEN "InvalidRange"
         ELSE "ok"
    ELSE IF ~isTimeSlot(startTime) THEN "InvalidRange"
         ELSE IF \E i \in 1..Len(reservations) :
                    LegacySlotQuery(reservations[i], date, startTime)
         THEN "SlotConflict"
         ELSE "ok"

(* Outcome of the controller's validation and conflict query *)
CreateCheck(date, startTime, endTime) ==
    IF date < Today THEN "InvalidDate"
    ELSE IF startTime = NoLabel THEN "StartRequired"
    ELSE IF endTime # NoLabel
    THEN IF ~isTimeSlot(startTime) \/ ~isTimeSlot(endTime) THEN "InvalidRange"
         ELSE IF parseHour(endTime) <= parseHour(startTime) THEN "InvalidRange"
         ELSE IF \E i \in 1..Len(reservations) :
                    RangeOverlapQuery(reservations[i], date, startTime, endTime)
         THEN "SlotConflict"
         ELSE "ok"
    ELSE IF ~isTimeSlot(startTime) THEN "InvalidRange"
         ELSE IF \E i \in 1..Len(reservations) :
                    LegacySlotQuery(reservations[i], date, startTime)
         THEN "SlotConflict"
         ELSE "ok"

createReservation(p, u, date, st, en, ts, pl) ==
    LET startTime == ReqStart(st, ts)
        outcome == CreateCheck(date, startTime, en)
        req == [IdleProc("none") EXCEPT !.op = "create", !.actor = u, !.date = date,
                   !.startTime = startTime, !.endTime = en, !.timeSlot = ts,
                   !.players = pl]
    IN  /\ proc[p].pc = "idle"
        /\ RoomForRes
        /\ RoomForTx
        /\ IF outcome = "ok" THEN Begin(p, req, "cr_findUser") ELSE Reject(p, req, outcome)
        /\ UNCHANGED <<users, reservations, transactions, paymentLogs, clock, faults, bal0>>

(* const user = await User.findById(userId) and the membership fee check *)
cr_findUser(p) ==
    LET u == proc[p].actor
    IN  /\ proc[p].pc = "cr_findUser"
        /\ IF ~users[u].membershipFeesPaid
           THEN /\ Finish(p, "FeesUnpaid")
           ELSE /\ proc' = [proc EXCEPT ![p].bal = users[u].coinBalance,
                                        ![p].pc = IF IsExempt(u) THEN "cr_validate"
                                                  ELSE "cr_unsettled"]
        /\ UNCHANGED <<users, reservations, transactions, paymentLogs, clock, faults, bal0>>

PendingLogs(u) ==
    {i \in 1..Len(paymentLogs) : paymentLogs[i].userId = u /\ paymentLogs[i].status = "pending"}

(* checkUnsettledPayments; failed is the lookup throwing, which it swallows *)
checkUnsettledPayments(u, failed) ==
    IF failed THEN 0 ELSE Cardinality(PendingLogs(u))

(* The gate without the coin check *)
CoinGateNoBalance(p, failed) ==
    IF ~IsExempt(proc[p].actor) /\ checkUnsettledPayments(proc[p].actor, failed) > 0
    THEN "UnsettledPayments"
    ELSE "ok"

(* The unsettled-payments gate and the coin check, both skipped for superadmins *)
CoinGate(p, failed) ==
    LET u == proc[p].actor
        totalCost == TotalCost(proc[p].startTime, proc[p].endTime)
    IN  IF ~IsExempt(u) /\ checkUnsettledPayments(u, failed) > 0 THEN "UnsettledPayments"
        ELSE IF ~IsExempt(u) /\ proc[p].bal < totalCost THEN "InsufficientBalance"
        ELSE "ok"

cr_unsettled(p) ==
    /\ proc[p].pc = "cr_unsettled"
    /\ IF CoinGate(p, FALSE) = "ok"
       THEN Goto(p, "cr_validate")
       ELSE Finish(p, CoinGate(p, FALSE))
    /\ UNCHANGED <<users, reservations, transactions, paymentLogs, clock, faults, bal0>>

NewReservation(p) ==
    [userId |-> proc[p].actor, date |-> proc[p].date, startTime |-> proc[p].startTime,
     endTime |-> proc[p].endTime, timeSlot |-> proc[p].timeSlot,
     duration |-> ReqDuration(proc[p].startTime, proc[p].endTime),
     players |-> proc[p].players, status |-> "confirmed", paymentStatus |-> "pending"]

(* reservation.save(), first half: schema validation, then the pre('save') query *)
cr_validate(p) ==
    LET doc == NewReservation(p)
    IN  /\ proc[p].pc = "cr_validate"
        /\ IF ~ReservationValid(doc)
           THEN Finish(p, "ValidationError")
           ELSE IF \E i \in 1..Len(reservations) :
                      PreSaveQuery(reservations[i], doc.date, doc.startTime,
                                   doc.endTime, doc.timeSlot)
           THEN Finish(p, "PreSaveConflict")
           ELSE Goto(p, "cr_insert")
        /\ UNCHANGED <<users, reservations, transactions, paymentLogs, clock, faults, bal0>>

(* reservation.save(), second half: the insert *)
cr_insert(p) ==
    /\ proc[p].pc = "cr_insert"
    /\ reservations' = Append(reservations, NewReservation(p))
    /\ proc' = [proc EXCEPT ![p].rid = Len(reservations) + 1,
                            ![p].pc = IF IsExempt(proc[p].actor) THEN "cr_saveTx"
                                      ELSE "cr_saveUser"]
    /\ UNCHANGED <<users, transactions, paymentLogs, clock, faults, bal0>>

(* The debit as an unvalidated increment of whatever is stored *)
cr_saveUserInc(p) ==
    LET u == proc[p].actor
    IN  /\ proc[p].pc = "cr_saveUser"
        /\ users' = [users EXCEPT
                ![u].coinBalance = @ - TotalCost(proc[p].startTime, proc[p].endTime)]
        /\ Goto(p, "cr_saveTx")
        /\ UNCHANGED <<reservations, transactions, paymentLogs, clock, faults, bal0>>

(* user.coinBalance -= totalCost; await user.save() *)
cr_saveUser(p) ==
    LET u == proc[p].actor
        doc == proc[p].bal - TotalCost(proc[p].startTime, proc[p].endTime)
    IN  /\ proc[p].pc = "cr_saveUser"
        /\ IF CoinBalanceValid(doc)
           THEN /\ users' = [users EXCEPT ![u].coinBalance = SavedBalance(@, doc)]
                /\ Goto(p, "cr_saveTx")
           ELSE /\ Finish(p, "ValidationError")
                /\ UNCHANGED users
        /\ UNCHANGED <<reservations, transactions, paymentLogs, clock, faults, bal0>>

(* The ledger entry carrying the price for every account *)
cr_saveTxCharged(p) ==
    LET u == proc[p].actor
        amount == TotalCost(proc[p].startTime, proc[p].endTime)
    IN  /\ proc[p].pc = "cr_saveTx"
        /\ transactions' = Append(transactions, CoinTx(u, "spent", amount, proc[p].rid))
        /\ Finish(p, "Created")
        /\ UNCHANGED <<users, reservations, paymentLogs, clock, faults, bal0>>

(* await coinTransaction.save() and the 201 response *)
cr_saveTx(p) ==
    LET u == proc[p].actor
        amount == IF IsExempt(u) THEN 0 ELSE TotalCost(proc[p].startTime, proc[p].endTime)
    IN  /\ proc[p].pc = "cr_saveTx"
        /\ transactions' = Append(transactions, CoinTx(u, "spent", amount, proc[p].rid))
        /\ Finish(p, "Created")
        /\ UNCHANGED <<users, reservations, paymentLogs, clock, faults, bal0>>

---------------------------------------------------------------------------
(* cancelReservation *)

Exists(rid) == rid \in 1..Len(reservations)

(* No ownership check *)
MayTouchAnyone(u, rid) == TRUE

MayTouch(u, rid) == IsExempt(u) \/ reservations[rid].userId = u

(* The checks without the test for a booking that is already cancelled *)
CancelCheckNoCancelled(u, rid) ==
    IF ~Exists(rid) THEN "NotFound"
    ELSE IF ~MayTouch(u, rid) THEN "Forbidden"
    ELSE IF reservations[rid].status = "completed" THEN "AlreadyCompleted"
    ELSE "ok"

CancelCheck(u, rid) ==
    IF ~Exists(rid) THEN "NotFound"
    ELSE IF ~MayTouch(u, rid) THEN "Forbidden"
    ELSE IF reservations[rid].status = "cancelled" THEN "AlreadyCancelled"
    ELSE IF reservations[rid].status = "completed" THEN "AlreadyCompleted"
    ELSE "ok"

(* A refund of one hour's price whatever the duration *)
RefundAmountFlat(rid) == COURT_RESERVATION

(* (reservation.duration || 1) * COIN_COSTS.COURT_RESERVATION *)
RefundAmount(rid) ==
    (IF reservations[rid].duration = 0 THEN 1 ELSE reservations[rid].duration)
        * COURT_RESERVATION

cancelReservation(p, u, rid) ==
    LET outcome == CancelCheck(u, rid)
        req == [IdleProc("none") EXCEPT !.op = "cancel", !.actor = u, !.rid = rid]
    IN  /\ proc[p].pc = "idle"
        /\ RoomForTx
        /\ IF outcome = "ok" THEN Begin(p, req, "ca_saveRes") ELSE Reject(p, req, outcome)
        /\ UNCHANGED <<users, reservations, transactions, paymentLogs, clock, faults, bal0>>

(* reservation.status = 'cancelled'; await reservation.save() *)
ca_saveRes(p) ==
    LET rid == proc[p].rid
    IN  /\ proc[p].pc = "ca_saveRes"
        /\ IF ReservationValid(reservations[rid])
           THEN /\ reservations' = [reservations EXCEPT ![rid].status = "cancelled"]
                /\ Goto(p, "ca_findUser")
           ELSE /\ Finish(p, "ValidationError")
                /\ UNCHANGED reservations
        /\ UNCHANGED <<users, transactions, paymentLogs, clock, faults, bal0>>

(* const user = await User.findById(reservation.userId) *)
ca_findUser(p) ==
    LET owner == reservations[proc[p].rid].userId
    IN  /\ proc[p].pc = "ca_findUser"
        /\ proc' = [proc EXCEPT ![p].bal = users[owner].coinBalance,
                                ![p].pc = IF IsExempt(owner) THEN "ca_saveTx"
                                          ELSE "ca_saveUser"]
        /\ UNCHANGED <<users, reservations, transactions, paymentLogs, clock, faults,
                       bal0>>

(* Variant: the refund is credited to the account that cancels *)
ca_saveUserToCaller(p) ==
    /\ proc[p].pc = "ca_saveUser"
    /\ users' = [users EXCEPT ![proc[p].actor].coinBalance = @ + RefundAmount(proc[p].rid)]
    /\ Goto(p, "ca_saveTx")
    /\ UNCHANGED <<reservations, transactions, paymentLogs, clock, faults, bal0>>

(* user.coinBalance += refundAmount; await user.save() *)
ca_saveUser(p) ==
    LET owner == reservations[proc[p].rid].userId
        doc == proc[p].bal + RefundAmount(proc[p].rid)
    IN  /\ proc[p].pc = "ca_saveUser"
        /\ users' = [users EXCEPT ![owner].coinBalance = SavedBalance(@, doc)]
        /\ Goto(p, "ca_saveTx")
        /\ UNCHANGED <<reservations, transactions, paymentLogs, clock, faults, bal0>>

(* the refund's coinTransaction.save() and the 200 response *)
ca_saveTx(p) ==
    LET rid == proc[p].rid
        owner == reservations[rid].userId
        amount == IF IsExempt(owner) THEN 0 ELSE RefundAmount(rid)
    IN  /\ proc[p].pc = "ca_saveTx"
        /\ transactions' = Append(transactions, CoinTx(owner, "earned", amount, rid))
        /\ Finish(p, "Cancelled")
        /\ UNCHANGED <<users, reservations, paymentLogs, clock, faults, bal0>>

---------------------------------------------------------------------------
(* updateReservation *)

allowedUpdates(u) ==
    IF IsExempt(u) THEN {"players", "notes", "status", "paymentStatus"}
    ELSE {"players", "notes"}

UpdateCheck(u, rid, field) ==
    IF ~Exists(rid) THEN "NotFound"
    ELSE IF ~MayTouch(u, rid) THEN "Forbidden"
    ELSE IF field \notin allowedUpdates(u) THEN "InvalidUpdates"
    ELSE "ok"

(* Object.assign(reservation, updates) on the document read at the start *)
Assigned(r, field, value) ==
    IF field = "status" THEN [r EXCEPT !.status = value]
    ELSE IF field = "paymentStatus" THEN [r EXCEPT !.paymentStatus = value]
    ELSE IF field = "players" THEN [r EXCEPT !.players = value]
    ELSE r

(* Assigning a path the value the loaded document already holds leaves it     *)
(* unmodified, and save() writes modified paths only.                        *)
ModifiedPath(r, field, value) ==
    IF Assigned(r, field, value) = r THEN "notes" ELSE field

updateReservation(p, u, rid, field, value) ==
    LET outcome == UpdateCheck(u, rid, field)
        req == [IdleProc("none") EXCEPT !.op = "update", !.actor = u, !.rid = rid,
                   !.field = field, !.value = value]
    IN  /\ proc[p].pc = "idle"
        /\ IF outcome = "ok"
           THEN Begin(p, [req EXCEPT !.field = ModifiedPath(reservations[rid], field, value)],
                      "up_save")
           ELSE Reject(p, req, outcome)
        /\ UNCHANGED <<users, reservations, transactions, paymentLogs, clock, faults, bal0>>

(* await reservation.save(): validation, then $set of the modified path *)
up_save(p) ==
    LET rid == proc[p].rid
        doc == Assigned(reservations[rid], proc[p].field, proc[p].value)
    IN  /\ proc[p].pc = "up_save"
        /\ IF ReservationValid(doc)
           THEN /\ reservations' = [reservations EXCEPT ![rid] = doc]
                /\ Finish(p, "Updated")
           ELSE /\ Finish(p, "ValidationError")
                /\ UNCHANGED reservations
        /\ UNCHANGED <<users, transactions, paymentLogs, clock, faults, bal0>>

---------------------------------------------------------------------------
(* grantCoins and deductCoins (superadmin routes) *)

grantCoins(p, target, amount) ==
    LET req == [IdleProc("none") EXCEPT !.op = "grant", !.actor = target,
                   !.amount = amount]
    IN  /\ proc[p].pc = "idle"
        /\ RoomForTx
        /\ IF amount <= 0
           THEN Reject(p, req, "InvalidAmount")
           ELSE Begin(p, [req EXCEPT !.bal = users[target].coinBalance], "gr_saveUser")
    /\ UNCHANGED <<users, reservations, transactions, paymentLogs, clock, faults, bal0>>

gr_saveUser(p) ==
    LET doc == proc[p].bal + proc[p].amount
    IN  /\ proc[p].pc = "gr_saveUser"
        /\ users' = [users EXCEPT ![proc[p].actor].coinBalance = SavedBalance(@, doc)]
        /\ Goto(p, "gr_saveTx")
        /\ UNCHANGED <<reservations, transactions, paymentLogs, clock, faults, bal0>>

gr_saveTx(p) ==
    /\ proc[p].pc = "gr_saveTx"
    /\ transactions' = Append(transactions,
                              CoinTx(proc[p].actor, "granted", proc[p].amount, 0))
    /\ Finish(p, "Granted")
    /\ UNCHANGED <<users, reservations, paymentLogs, clock, faults, bal0>>

deductCoins(p, target, amount) ==
    LET req == [IdleProc("none") EXCEPT !.op = "deduct", !.actor = target,
                   !.amount = amount]
    IN  /\ proc[p].pc = "idle"
        /\ RoomForTx
        /\ IF amount <= 0
           THEN Reject(p, req, "InvalidAmount")
           ELSE IF users[target].coinBalance < amount
           THEN Reject(p, req, "InsufficientBalance")
           ELSE Begin(p, [req EXCEPT !.bal = users[target].coinBalance], "de_saveUser")
    /\ UNCHANGED <<users, reservations, transactions, paymentLogs, clock, faults, bal0>>

de_saveUser(p) ==
    LET doc == proc[p].bal - proc[p].amount
    IN  /\ proc[p].pc = "de_saveUser"
        /\ IF CoinBalanceValid(doc)
           THEN /\ users' = [users EXCEPT ![proc[p].actor].coinBalance = SavedBalance(@, doc)]
                /\ Goto(p, "de_saveTx")
           ELSE /\ Finish(p, "ValidationError")
                /\ UNCHANGED users
        /\ UNCHANGED <<reservations, transactions, paymentLogs, clock, faults, bal0>>

de_saveTx(p) ==
    /\ proc[p].pc = "de_saveTx"
    /\ transactions' = Append(transactions,
                              CoinTx(proc[p].actor, "spent", proc[p].amount, 0))
    /\ Finish(p, "Deducted")
    /\ UNCHANGED <<users, reservations, paymentLogs, clock, faults, bal0>>

---------------------------------------------------------------------------
(* requestCoins, approveCoinRequest and rejectCoinRequest *)

(* A CoinTransaction is named by its place in the collection; as the       *)
(* referenceId of another entry it is written negated, apart from the      *)
(* booking references.                                                     *)
RequestRef(requestId) == 0 - requestId

CoinRequestTx(u, amount) ==
    [userId |-> u, type |-> "requested", amount |-> amount, referenceId |-> 0,
     status |-> "pending"]

requestCoins(p, u, amount) ==
    LET req == [IdleProc("none") EXCEPT !.op = "request", !.actor = u, !.amount = amount]
    IN  /\ proc[p].pc = "idle"
        /\ RoomForTx
        /\ IF amount <= 0
           THEN Reject(p, req, "InvalidAmount")
           ELSE Begin(p, req, "rq_saveTx")
        /\ UNCHANGED <<users, reservations, transactions, paymentLogs, clock, faults, bal0>>

(* await transaction.save() *)
rq_saveTx(p) ==
    /\ proc[p].pc = "rq_saveTx"
    /\ transactions' = Append(transactions, CoinRequestTx(proc[p].actor, proc[p].amount))
    /\ proc' = [proc EXCEPT ![p].pc = "responded", ![p].resp = "Requested",
                            ![p].rid = Len(transactions) + 1]
    /\ UNCHANGED <<users, reservations, paymentLogs, clock, faults, bal0>>

(* CoinTransaction.findById(requestId) and the test of its status *)
CoinRequestCheck(requestId) ==
    IF requestId \notin 1..Len(transactions) THEN "NotFound"
    ELSE IF transactions[requestId].status # "pending" THEN "AlreadyProcessed"
    ELSE "ok"

approveCoinRequest(p, requestId) ==
    LET outcome == CoinRequestCheck(requestId)
        req == [IdleProc("none") EXCEPT !.op = "approve", !.rid = requestId]
    IN  /\ proc[p].pc = "idle"
        /\ RoomForTx
        /\ IF outcome = "ok"
           THEN Begin(p, [req EXCEPT !.actor = transactions[requestId].userId,
                                     !.amount = transactions[requestId].amount],
                      "ap_findUser")
           ELSE Reject(p, req, outcome)
        /\ UNCHANGED <<users, reservations, transactions, paymentLogs, clock, faults, bal0>>

(* const user = await User.findById(coinRequest.userId) *)
ap_findUser(p) ==
    /\ proc[p].pc = "ap_findUser"
    /\ proc' = [proc EXCEPT ![p].bal = users[proc[p].actor].coinBalance,
                            ![p].pc = "ap_saveUser"]
    /\ UNCHANGED <<users, reservations, transactions, paymentLogs, clock, faults, bal0>>

(* user.coinBalance += coinRequest.amount; await user.save() *)
ap_saveUser(p) ==
    LET doc == proc[p].bal + proc[p].amount
    IN  /\ proc[p].pc = "ap_saveUser"
        /\ users' = [users EXCEPT ![proc[p].actor].coinBalance = SavedBalance(@, doc)]
        /\ Goto(p, "ap_saveReq")
        /\ UNCHANGED <<reservations, transactions, paymentLogs, clock, faults, bal0>>

(* coinRequest.status = 'approved'; await coinRequest.save() *)
ap_saveReq(p) ==
    /\ proc[p].pc = "ap_saveReq"
    /\ transactions' = [transactions EXCEPT ![proc[p].rid].status = "approved"]
    /\ Goto(p, "ap_saveTx")
    /\ UNCHANGED <<users, reservations, paymentLogs, clock, faults, bal0>>

(* await grantedTransaction.save() and the 200 response *)
ap_saveTx(p) ==
    /\ proc[p].pc = "ap_saveTx"
    /\ transactions' = Append(transactions,
            CoinTx(proc[p].actor, "granted", proc[p].amount, RequestRef(proc[p].rid)))
    /\ Finish(p, "Approved")
    /\ UNCHANGED <<users, reservations, paymentLogs, clock, faults, bal0>>

rejectCoinRequest(p, requestId) ==
    LET outcome == CoinRequestCheck(requestId)
        req == [IdleProc("none") EXCEPT !.op = "reject", !.rid = requestId]
    IN  /\ proc[p].pc = "idle"
        /\ IF outcome = "ok"
           THEN Begin(p, [req EXCEPT !.actor = transactions[requestId].userId], "rj_saveReq")
           ELSE Reject(p, req, outcome)
        /\ UNCHANGED <<users, reservations, transactions, paymentLogs, clock, faults, bal0>>

(* coinRequest.status = 'rejected'; await coinRequest.save() *)
rj_saveReq(p) ==
    /\ proc[p].pc = "rj_saveReq"
    /\ transactions' = [transactions EXCEPT ![proc[p].rid].status = "rejected"]
    /\ Finish(p, "Rejected")
    /\ UNCHANGED <<users, reservations, paymentLogs, clock, faults, bal0>>

---------------------------------------------------------------------------
(* calculatePlayerPayments: amounts are exact fractions num / den *)

(* The whole shortfall added to every member's rate *)
AdjustedRateWhole(rate, difference, totalPlayers) == (rate + difference) * totalPlayers

(* The rate raised in proportion to the shortfall, to the nearest unit below *)
AdjustedRateProportional(rate, difference, totalPlayers) ==
    IF difference = MINIMUM_TOTAL THEN rate * totalPlayers + difference
    ELSE (rate * MINIMUM_TOTAL * totalPlayers) \div (MINIMUM_TOTAL - difference)

(* rate += difference / totalPlayers, as the numerator over totalPlayers *)
AdjustedRate(rate, difference, totalPlayers) == rate * totalPlayers + difference

calculatePlayerPayments(playerIds, duration) ==
    LET players == playerIds \cap Accounts
        homeownerCount ==
            Cardinality({u \in players : users[u].homeownerStatus = "homeowner"})
        nonHomeownerCount ==
            Cardinality({u \in players : users[u].homeownerStatus = "non-homeowner"})
        calculatedTotal ==
            homeownerCount * HOMEOWNER_RATE + nonHomeownerCount * NON_HOMEOWNER_RATE
        actualTotal ==
            IF calculatedTotal > MINIMUM_TOTAL THEN calculatedTotal ELSE MINIMUM_TOTAL
        adjust == actualTotal > calculatedTotal
        totalPlayers == homeownerCount + nonHomeownerCount
        den == IF adjust THEN totalPlayers ELSE 1
        difference == actualTotal - calculatedTotal
        homeownerRate ==
            IF adjust THEN AdjustedRate(HOMEOWNER_RATE, difference, totalPlayers)
            ELSE HOMEOWNER_RATE
        nonHomeownerRate ==
            IF adjust THEN AdjustedRate(NON_HOMEOWNER_RATE, difference, totalPlayers)
            ELSE NON_HOMEOWNER_RATE
        rate(u) == IF users[u].homeownerStatus = "homeowner" THEN homeownerRate
                   ELSE nonHomeownerRate
    IN  [playerPayments |->
            [u \in players |->
                [homeownerStatus |-> users[u].homeownerStatus,
                 ratePerHour |-> <<rate(u), den>>,
                 totalAmount |-> <<rate(u) * duration, den>>]],
         summary |->
            [duration |-> duration,
             homeownerCount |-> homeownerCount,
             nonHomeownerCount |-> nonHomeownerCount,
             homeownerRatePerHour |-> <<homeownerRate, den>>,
             nonHomeownerRatePerHour |-> <<nonHomeownerRate, den>>,
             totalPerHour |-> actualTotal,
             grandTotal |-> actualTotal * duration]]

(* POST /calculate-payments: for a stored reservation (reservationId # 0;  *)
(* its roster unless playerIds are given) or for a roster and a time range *)
calculateReservationPayments(p, reservationId, hasPlayerIds, playerIds, startTime, endTime) ==
    LET req == [IdleProc("none") EXCEPT !.op = "calculate", !.rid = reservationId,
                   !.players = playerIds, !.startTime = startTime, !.endTime = endTime]
        r == reservations[reservationId]
    IN  /\ proc[p].pc = "idle"
        /\ IF reservationId # 0
           THEN IF ~Exists(reservationId) THEN Reject(p, req, "NotFound")
                ELSE Reject(p, [req EXCEPT
                        !.players = IF hasPlayerIds THEN playerIds ELSE r.players,
                        !.data = calculatePlayerPayments(
                                     IF hasPlayerIds THEN playerIds ELSE r.players,
                                     IF r.duration = 0 THEN 1 ELSE r.duration)],
                     "Calculated")
           ELSE IF hasPlayerIds /\ startTime # NoLabel /\ endTime # NoLabel
           THEN Reject(p, [req EXCEPT
                        !.data = calculatePlayerPayments(
                                     playerIds, calculateDuration(startTime, endTime))],
                     "Calculated")
           ELSE Reject(p, req, "BadRequest")
        /\ UNCHANGED <<users, reservations, transactions, paymentLogs, clock, faults, bal0>>

(* The per-hour total taken for the fee, whatever the duration *)
totalCourtFeePerHour(calc) ==
    <<calc.summary.totalPerHour, 1>>

(* playerPayments.reduce((sum, payment) => sum + payment.totalAmount, 0) *)
totalCourtFee(calc) ==
    LET pp == calc.playerPayments
        ho == {u \in DOMAIN pp : pp[u].homeownerStatus = "homeowner"}
        nh == (DOMAIN pp) \ ho
        num(S) == IF S = {} THEN 0
                  ELSE Cardinality(S) * (CHOOSE x \in {pp[u].totalAmount[1] : u \in S} : TRUE)
    IN  <<num(ho) + num(nh), calc.summary.homeownerRatePerHour[2]>>

(* Math.abs(Number(amount) - totalCourtFee) > 0.01, for a whole amount *)
AmountMismatch(amount, fee) ==
    LET diff == amount * fee[2] - fee[1]
        abs == IF diff < 0 THEN -diff ELSE diff
    IN  abs * 100 > fee[2]

---------------------------------------------------------------------------
(* createPaymentLog and updatePaymentStatus *)

EndPassed(r) ==
    LET label == IF r.endTime # NoLabel THEN r.endTime ELSE r.startTime
    IN  ~(r.date > Now.day \/ (r.date = Now.day /\ parseHour(label) > Now.hour))

(* Variant: the checks without the test that the booking's end has passed *)
PayLogCheckNoEnd(u, rid, amount) ==
    IF ~users[u].isApproved THEN "Forbidden"
    ELSE IF amount = 0 THEN "MissingFields"
    ELSE IF ~Exists(rid) THEN "NotFound"
    ELSE IF u \notin reservations[rid].players THEN "NotInRoster"
    ELSE "ok"

PayLogCheck(u, rid, amount) ==
    IF ~users[u].isApproved THEN "Forbidden"
    ELSE IF amount = 0 THEN "MissingFields"
    ELSE IF ~Exists(rid) THEN "NotFound"
    ELSE IF u \notin reservations[rid].players THEN "NotInRoster"
    ELSE IF ~EndPassed(reservations[rid]) THEN "NotCompleted"
    ELSE "ok"

createPaymentLog(p, u, rid, amount) ==
    LET outcome == PayLogCheck(u, rid, amount)
        req == [IdleProc("none") EXCEPT !.op = "paylog", !.actor = u, !.rid = rid,
                   !.amount = amount]
    IN  /\ proc[p].pc = "idle"
        /\ RoomForLogs
        /\ IF outcome = "ok"
           THEN Begin(p, [req EXCEPT !.players = reservations[rid].players],
                      "pl_findExisting")
           ELSE Reject(p, req, outcome)
        /\ UNCHANGED <<users, reservations, transactions, paymentLogs, clock, faults, bal0>>

HasLog(u, rid) ==
    \E i \in 1..Len(paymentLogs) :
        paymentLogs[i].userId = u /\ paymentLogs[i].reservationId = rid

(* PaymentLog.findOne({userId, reservationId}), then the amount check *)
pl_findExisting(p) ==
    LET u == proc[p].actor
        rid == proc[p].rid
        calc == calculatePlayerPayments(proc[p].players, reservations[rid].duration)
    IN  /\ proc[p].pc = "pl_findExisting"
        /\ IF HasLog(u, rid) THEN Finish(p, "AlreadySettled")
           ELSE IF u \notin DOMAIN calc.playerPayments THEN Finish(p, "NoUserPayment")
           ELSE IF AmountMismatch(proc[p].amount, totalCourtFee(calc))
           THEN Finish(p, "AmountMismatch")
           ELSE Goto(p, "pl_save")
        /\ UNCHANGED <<users, reservations, transactions, paymentLogs, clock, faults, bal0>>

(* paymentLog.save(): the unique index on (userId, reservationId) rejects a twin *)
pl_save(p) ==
    LET u == proc[p].actor
        rid == proc[p].rid
        calc == calculatePlayerPayments(proc[p].players, reservations[rid].duration)
    IN  /\ proc[p].pc = "pl_save"
        /\ IF HasLog(u, rid)
           THEN /\ Finish(p, "DuplicateKey")
                /\ UNCHANGED paymentLogs
           ELSE /\ paymentLogs' = Append(paymentLogs,
                      [userId |-> u, reservationId |-> rid,
                       amount |-> totalCourtFee(calc),
                       homeownerStatus |-> calc.playerPayments[u].homeownerStatus,
                       ratePerHour |-> calc.playerPayments[u].ratePerHour,
                       status |-> "pending"])
                /\ Finish(p, "Logged")
        /\ UNCHANGED <<users, reservations, transactions, clock, faults, bal0>>

PaymentStatuses == {"pending", "paid", "rejected"}

(* PaymentLog.findByIdAndUpdate(id, {status, ...}): one atomic update *)
updatePaymentStatus(p, u, id, status) ==
    LET req == [IdleProc("none") EXCEPT !.op = "paystatus", !.actor = u, !.rid = id,
                   !.value = status]
    IN  /\ proc[p].pc = "idle"
        /\ IF ~IsExempt(u)
           THEN Reject(p, req, "Forbidden") /\ UNCHANGED paymentLogs
           ELSE IF status \notin PaymentStatuses
           THEN Reject(p, req, "InvalidStatus") /\ UNCHANGED paymentLogs
           ELSE IF id \notin 1..Len(paymentLogs)
           THEN Reject(p, req, "NotFound") /\ UNCHANGED paymentLogs
           ELSE /\ paymentLogs' = [paymentLogs EXCEPT ![id].status = status]
                /\ Reject(p, req, "StatusUpdated")
        /\ UNCHANGED <<users, reservations, transactions, clock, faults, bal0>>

---------------------------------------------------------------------------
(* Schedules *)

(* The oldest date getDailySchedule still shows: two days before today *)
ScheduleCutoffDays == 2

(* Variant: the slot at the end label counts as occupied too *)
getReservationTimeSlotsInclusive(reservation) ==
    IF reservation.startTime # NoLabel /\ reservation.endTime # NoLabel
    THEN {Pad(h) : h \in parseHour(reservation.startTime)..parseHour(reservation.endTime)}
    ELSE IF reservation.timeSlot # NoLabel THEN {reservation.timeSlot} ELSE {}

(* The slots a booking occupies: its range without the end label, or its  *)
(* single legacy slot when it has no range                                *)
getReservationTimeSlots(reservation) ==
    IF reservation.startTime # NoLabel /\ reservation.endTime # NoLabel
    THEN {Pad(h) : h \in parseHour(reservation.startTime)..(parseHour(reservation.endTime) - 1)}
    ELSE IF reservation.timeSlot # NoLabel THEN {reservation.timeSlot} ELSE {}

(* The bookings the schedule query loads for a date *)
ScheduleQuery(date) ==
    {i \in 1..Len(reservations) :
        reservations[i].date = date /\ reservations[i].status # "cancelled"}

(* Every slot of the day, unavailable when a loaded booking occupies it *)
DaySlots(date) ==
    [i \in 1..Len(TIME_SLOTS) |->
        [timeSlot |-> TIME_SLOTS[i],
         isAvailable |-> ~\E k \in ScheduleQuery(date) :
                            TIME_SLOTS[i] \in getReservationTimeSlots(reservations[k])]]

getDailySchedule(p, date) ==
    LET req == [IdleProc("none") EXCEPT !.op = "daily", !.date = date]
    IN  /\ proc[p].pc = "idle"
        /\ IF date < Today - ScheduleCutoffDays
           THEN Reject(p, req, "TooOld")
           ELSE Reject(p, [req EXCEPT !.timeSlots = DaySlots(date)], "Schedule")
        /\ UNCHANGED <<users, reservations, transactions, paymentLogs, clock, faults, bal0>>

(* The day count of a weekly view: 7 when none is given; a count of 0 is  *)
(* taken for none                                                         *)
DefaultDays == 7

MaxDays == 14

DaysOrDefault(days) == IF days = 0 THEN DefaultDays ELSE days

(* Variant: the days before today are kept *)
WeekDatesUnfiltered(startDate, days) == [i \in 1..days |-> startDate + i - 1]

(* The dates of the days from startDate on, in order, without the days    *)
(* before today                                                           *)
WeekDates(startDate, days) ==
    LET KeepDay(d) == ~(d < Today)
    IN  SelectSeq([i \in 1..days |-> startDate + i - 1], KeepDay)

getWeeklyDetailedSchedule(p, startDate, daysParam) ==
    LET days == DaysOrDefault(daysParam)
        req == [IdleProc("none") EXCEPT !.op = "weekly", !.date = startDate,
                                        !.numDays = daysParam]
        dates == WeekDates(startDate, days)
    IN  /\ proc[p].pc = "idle"
        /\ IF days < 1 \/ days > MaxDays
           THEN Reject(p, req, "BadRequest")
           ELSE Reject(p, [req EXCEPT !.days =
                                  [i \in 1..Len(dates) |->
                                      [date |-> dates[i], timeSlots |-> DaySlots(dates[i])]]],
                       "Schedule")
        /\ UNCHANGED <<users, reservations, transactions, paymentLogs, clock, faults, bal0>>

---------------------------------------------------------------------------
(* Environment: the clock, and storage faults *)

Tick ==
    /\ clock < Len(Timeline)
    /\ clock' = clock + 1
    /\ UNCHANGED <<users, reservations, transactions, paymentLogs, proc, faults, bal0>>

WriteSteps ==
    {"cr_insert", "cr_saveUser", "cr_saveTx", "ca_saveRes", "ca_saveUser", "ca_saveTx",
     "up_save", "gr_saveUser", "gr_saveTx", "de_saveUser", "de_saveTx", "pl_save"}

(* A write that throws: the handler's catch block answers 500 *)
StorageFault(p) ==
    /\ proc[p].pc \in WriteSteps
    /\ faults < MaxFaults
    /\ faults' = faults + 1
    /\ Finish(p, "StorageError")
    /\ UNCHANGED <<users, reservations, transactions, paymentLogs, clock, bal0>>

(* The pending-payments lookup throws: checkUnsettledPayments reports none *)
UnsettledLookupFault(p) ==
    /\ proc[p].pc = "cr_unsettled"
    /\ faults < MaxFaults
    /\ faults' = faults + 1
    /\ IF CoinGate(p, TRUE) = "ok"
       THEN Goto(p, "cr_validate")
       ELSE Finish(p, CoinGate(p, TRUE))
    /\ UNCHANGED <<users, reservations, transactions, paymentLogs, clock, bal0>>

---------------------------------------------------------------------------
(* Requests and next-state relations *)

ReservationSteps(p) ==
    \/ cr_findUser(p) \/ cr_unsettled(p) \/ cr_validate(p) \/ cr_insert(p)
    \/ cr_saveUser(p) \/ cr_saveTx(p)
    \/ ca_saveRes(p) \/ ca_findUser(p) \/ ca_saveUser(p) \/ ca_saveTx(p)
    \/ up_save(p)
    \/ Respond(p)

CoinSteps(p) ==
    \/ gr_saveUser(p) \/ gr_saveTx(p)
    \/ de_saveUser(p) \/ de_saveTx(p)

PaymentSteps(p) == pl_findExisting(p) \/ pl_save(p)

(* The requests a client may send, drawn from the input sets I *)
ReservationRequest(p, I) ==
    \/ \E u \in I.actors, d \in I.dates, r \in I.ranges, ts \in I.slots, pl \in I.rosters :
          createReservation(p, u, d, r[1], r[2], ts, pl)
    \/ \E u \in I.actors, rid \in 1..MaxRes : cancelReservation(p, u, rid)
    \/ \E u \in I.actors, rid \in 1..MaxRes, upd \in I.updates :
          updateReservation(p, u, rid, upd[1], upd[2])

CoinRequest(p, I) ==
    \/ \E u \in I.targets, a \in I.grants : grantCoins(p, u, a)
    \/ \E u \in I.targets, a \in I.deducts : deductCoins(p, u, a)

PaymentRequest(p, I) ==
    \/ \E u \in I.payers, rid \in 1..MaxRes, a \in I.amounts :
          createPaymentLog(p, u, rid, a)
    \/ \E u \in I.actors, id \in 1..MaxLogs, st \in I.payStatuses :
          updatePaymentStatus(p, u, id, st)

SeqInputs ==
    [actors |-> Accounts,
     dates |-> {0},
     ranges |-> {<<Pad(9), Pad(11)>>, <<Pad(10), Pad(12)>>, <<Pad(11), Pad(13)>>,
                 <<Pad(11), Pad(9)>>},
     slots |-> {NoLabel, Pad(9)},
     rosters |-> {{"u1", "u2"}},
     updates |-> {<<"status", "confirmed">>, <<"status", "completed">>, <<"notes", "text">>},
     targets |-> {"u1"},
     grants |-> {5},
     deducts |-> {85},
     payers |-> {"u1"},
     amounts |-> {200},
     payStatuses |-> {"paid"}]

ConcInputs ==
    [actors |-> {"u1", "sa"},
     dates |-> {0},
     ranges |-> {<<Pad(9), Pad(11)>>, <<Pad(10), Pad(12)>>},
     slots |-> {NoLabel},
     rosters |-> {{"u1", "u2"}},
     updates |-> {<<"notes", "text">>},
     targets |-> {"u1"},
     grants |-> {5},
     deducts |-> {85},
     payers |-> {"u1"},
     amounts |-> {200},
     payStatuses |-> {"paid"}]

FaultInputs == [ConcInputs EXCEPT !.actors = {"u1", "u2", "sa"}]

(* One request at a time, no storage faults, the clock moving *)
NextSeq ==
    \/ \E p \in {1} :
          \/ ReservationRequest(p, SeqInputs) \/ ReservationSteps(p)
          \/ CoinRequest(p, SeqInputs) \/ CoinSteps(p)
          \/ PaymentRequest(p, SeqInputs) \/ PaymentSteps(p)
    \/ Tick

SpecSeq == Init /\ [][NextSeq]_vars

(* One request at a time, with storage faults *)
NextFault ==
    \/ \E p \in {1} :
          \/ ReservationRequest(p, FaultInputs) \/ ReservationSteps(p)
          \/ StorageFault(p) \/ UnsettledLookupFault(p)

SpecFault == Init /\ [][NextFault]_vars

(* Concurrent requests, no storage faults *)
NextConc ==
    \E p \in Procs :
        \/ ReservationRequest(p, ConcInputs) \/ ReservationSteps(p)
        \/ CoinRequest(p, ConcInputs) \/ CoinSteps(p)

SpecConc == Init /\ [][NextConc]_vars

(* Concurrent requests and storage faults *)
Next ==
    \E p \in Procs :
        \/ ReservationRequest(p, ConcInputs) \/ ReservationSteps(p)
        \/ CoinRequest(p, ConcInputs) \/ CoinSteps(p)
        \/ StorageFault(p) \/ UnsettledLookupFault(p)

Spec == Init /\ [][Next]_vars

(* Create and cancel only, one request at a time, from a chosen balance *)
TripBalances == {FREE_COINS_FOR_NEW_USER, FREE_COINS_FOR_NEW_USER - 85}

TripInputs ==
    [ConcInputs EXCEPT
        !.actors = {"u1", "sa"},
        !.ranges = {<<Pad(9), Pad(9 + d)>> : d \in MinDuration..MaxDuration}
                       \cup {<<Pad(18), Pad(20)>>}]

(* u1 registered, and an admin deduction has brought its balance to b *)
InitTrip ==
    \E b \in TripBalances :
        /\ bal0 = [u \in Accounts |-> IF u = "u1" THEN b ELSE FREE_COINS_FOR_NEW_USER]
        /\ users = [u \in Accounts |->
                       IF u = "sa" THEN RegisteredUser("superadmin", TRUE, "homeowner")
                       ELSE IF u = "u1"
                       THEN [RegisteredUser("member", TRUE, "homeowner")
                                EXCEPT !.coinBalance = b]
                       ELSE RegisteredUser("member", FALSE, "non-homeowner")]
        /\ transactions =
              <<WelcomeBonus("u1"), WelcomeBonus("u2"), WelcomeBonus("sa")>>
              \o (IF b < FREE_COINS_FOR_NEW_USER
                  THEN <<CoinTx("u1", "spent", FREE_COINS_FOR_NEW_USER - b, 0)>>
                  ELSE <<>>)
        /\ reservations = <<>>
        /\ paymentLogs = <<>>
        /\ clock = 1
        /\ proc = [p \in Procs |-> IdleProc("none")]
        /\ faults = 0

NextTrip == \E p \in {1} : ReservationRequest(p, TripInputs) \/ ReservationSteps(p)

SpecRoundTrip == InitTrip /\ [][NextTrip]_vars

(* Bookings and payment logs: concurrent requests, the clock moving *)
PayInputs ==
    [ConcInputs EXCEPT
        !.ranges = {<<Pad(9), Pad(11)>>},
        !.payers = {"u1", "u2"},
        !.payStatuses = PaymentStatuses]

NextPay ==
    \/ \E p \in Procs :
          \/ \E u \in PayInputs.actors, r \in PayInputs.ranges, pl \in PayInputs.rosters :
                createReservation(p, u, 0, r[1], r[2], NoLabel, pl)
          \/ cr_findUser(p) \/ cr_unsettled(p) \/ cr_validate(p) \/ cr_insert(p)
          \/ cr_saveUser(p) \/ cr_saveTx(p)
          \/ PaymentRequest(p, PayInputs) \/ PaymentSteps(p)
          \/ Respond(p)
    \/ Tick

SpecPay == Init /\ [][NextPay]_vars

(* Coin requests and their resolution by administrators, concurrently *)
CoinReqInputs ==
    [requesters |-> {"u1"},
     requests |-> {50},
     requestIds |-> 1..(Cardinality(Accounts) + MaxTx)]

NextCoinReq ==
    \E p \in Procs :
        \/ \E u \in CoinReqInputs.requesters, a \in CoinReqInputs.requests :
              requestCoins(p, u, a)
        \/ rq_saveTx(p)
        \/ \E id \in CoinReqInputs.requestIds : approveCoinRequest(p, id)
        \/ ap_findUser(p) \/ ap_saveUser(p) \/ ap_saveReq(p) \/ ap_saveTx(p)
        \/ \E id \in CoinReqInputs.requestIds : rejectCoinRequest(p, id)
        \/ rj_saveReq(p)
        \/ Respond(p)

SpecCoinReq == Init /\ [][NextCoinReq]_vars

(* The payment allocation: accounts of either class, bookings of several   *)
(* rosters and durations, quotes and payment logs, one request at a time   *)
HomeownerStatuses == {"homeowner", "non-homeowner"}

InitAlloc ==
    \E hs \in [Accounts -> HomeownerStatuses] :
        /\ users = [u \in Accounts |->
                       IF u = "sa" THEN RegisteredUser("superadmin", TRUE, hs[u])
                       ELSE IF u = "u1" THEN RegisteredUser("member", TRUE, hs[u])
                       ELSE RegisteredUser("member", FALSE, hs[u])]
        /\ reservations = <<>>
        /\ transactions = <<WelcomeBonus("u1"), WelcomeBonus("u2"), WelcomeBonus("sa")>>
        /\ paymentLogs = <<>>
        /\ clock = 1
        /\ proc = [p \in Procs |-> IdleProc("none")]
        /\ faults = 0
        /\ bal0 = [u \in Accounts |-> FREE_COINS_FOR_NEW_USER]

AllocInputs ==
    [ConcInputs EXCEPT
        !.actors = {"u1"},
        !.ranges = {<<Pad(9), Pad(10)>>, <<Pad(9), Pad(11)>>, <<Pad(9), Pad(14)>>},
        !.rosters = (SUBSET Accounts) \ {{}},
        !.payers = {"u1", "u2"},
        !.amounts = {100, 101, 200, 250, 500}]

(* Request bodies of POST /calculate-payments *)
CalcRequests ==
    {<<0, TRUE, pl, r[1], r[2]>> :
        pl \in SUBSET Accounts,
        r \in {<<Pad(9), Pad(10)>>, <<Pad(9), Pad(11)>>, <<Pad(9), Pad(14)>>}}
    \cup {<<1, TRUE, pl, NoLabel, NoLabel>> : pl \in {{"u1"}, {"u1", "u2"}}}
    \cup {<<rid, FALSE, {}, NoLabel, NoLabel>> : rid \in 0..MaxRes}

NextAlloc ==
    \/ \E p \in {1} :
          \/ \E u \in AllocInputs.actors, r \in AllocInputs.ranges,
                 pl \in AllocInputs.rosters :
                createReservation(p, u, 0, r[1], r[2], NoLabel, pl)
          \/ cr_findUser(p) \/ cr_unsettled(p) \/ cr_validate(p) \/ cr_insert(p)
          \/ cr_saveUser(p) \/ cr_saveTx(p)
          \/ \E c \in CalcRequests :
                calculateReservationPayments(p, c[1], c[2], c[3], c[4], c[5])
          \/ \E u \in AllocInputs.payers, rid \in 1..MaxRes, a \in AllocInputs.amounts :
                createPaymentLog(p, u, rid, a)
          \/ PaymentSteps(p)
          \/ Respond(p)
    \/ Tick

SpecAlloc == InitAlloc /\ [][NextAlloc]_vars

(* Bookings by accounts of several balances, one request at a time: u1 or *)
(* sa may have had an admin deduction before                              *)
CreateBalances ==
    {[u1 |-> FREE_COINS_FOR_NEW_USER, sa |-> FREE_COINS_FOR_NEW_USER],
     [u1 |-> 5, sa |-> FREE_COINS_FOR_NEW_USER],
     [u1 |-> FREE_COINS_FOR_NEW_USER, sa |-> 5]}

CreateInputs ==
    [ConcInputs EXCEPT
        !.actors = Accounts,
        !.ranges = {<<Pad(9), Pad(10)>>, <<Pad(9), Pad(11)>>, <<Pad(10), Pad(12)>>,
                    <<Pad(9), Pad(18)>>},
        !.slots = {NoLabel, Pad(9)}]

InitCreate ==
    \E b \in CreateBalances :
        /\ bal0 = [u \in Accounts |-> IF u = "u2" THEN FREE_COINS_FOR_NEW_USER ELSE b[u]]
        /\ users = [u \in Accounts |->
                       IF u = "sa"
                       THEN [RegisteredUser("superadmin", TRUE, "homeowner")
                                EXCEPT !.coinBalance = b.sa]
                       ELSE IF u = "u1"
                       THEN [RegisteredUser("member", TRUE, "homeowner")
                                EXCEPT !.coinBalance = b.u1]
                       ELSE RegisteredUser("member", FALSE, "non-homeowner")]
        /\ transactions =
              <<WelcomeBonus("u1"), WelcomeBonus("u2"), WelcomeBonus("sa")>>
              \o (IF b.u1 < FREE_COINS_FOR_NEW_USER
                  THEN <<CoinTx("u1", "spent", FREE_COINS_FOR_NEW_USER - b.u1, 0)>>
                  ELSE <<>>)
              \o (IF b.sa < FREE_COINS_FOR_NEW_USER
                  THEN <<CoinTx("sa", "spent", FREE_COINS_FOR_NEW_USER - b.sa, 0)>>
                  ELSE <<>>)
        /\ reservations = <<>>
        /\ paymentLogs = <<>>
        /\ clock = 1
        /\ proc = [p \in Procs |-> IdleProc("none")]
        /\ faults = 0

NextCreate == \E p \in {1} : ReservationRequest(p, CreateInputs) \/ ReservationSteps(p)

SpecCreate == InitCreate /\ [][NextCreate]_vars

(* Bookings and payment logs, one request at a time, where the lookup of  *)
(* pending payment logs may throw                                         *)
PayFaultInputs ==
    [ConcInputs EXCEPT
        !.ranges = {<<Pad(9), Pad(11)>>, <<Pad(11), Pad(13)>>},
        !.payers = {"u1", "sa"}]

NextPayFault ==
    \/ \E p \in {1} :
          \/ \E u \in PayFaultInputs.actors, r \in PayFaultInputs.ranges,
                 pl \in PayFaultInputs.rosters :
                createReservation(p, u, 0, r[1], r[2], NoLabel, pl)
          \/ cr_findUser(p) \/ cr_unsettled(p) \/ cr_validate(p) \/ cr_insert(p)
          \/ cr_saveUser(p) \/ cr_saveTx(p)
          \/ \E u \in PayFaultInputs.payers, rid \in 1..MaxRes,
                 a \in PayFaultInputs.amounts :
                createPaymentLog(p, u, rid, a)
          \/ PaymentSteps(p)
          \/ UnsettledLookupFault(p)
          \/ Respond(p)
    \/ Tick

SpecPayFault == Init /\ [][NextPayFault]_vars

(* Bookings and schedule views, one request at a time, while the clock    *)
(* moves on                                                               *)
ScheduleInputs ==
    [ConcInputs EXCEPT
        !.dates = {0, 1},
        !.ranges = {<<Pad(5), Pad(6)>>, <<Pad(9), Pad(11)>>, <<Pad(10), Pad(12)>>,
                    <<Pad(21), Pad(22)>>},
        !.slots = {NoLabel, Pad(9)},
        !.updates = {<<"status", "confirmed">>, <<"notes", "text">>}]

(* The dates a client asks a day view for *)
ViewDates == {-2, 0, 1}

(* The start dates and day counts a client asks a weekly view for *)
WeekStarts == {-2, -1, 1}

WeekLengths == {0, 1, 3, 15}

NextSchedule ==
    \/ \E p \in {1} :
          \/ ReservationRequest(p, ScheduleInputs)
          \/ ReservationSteps(p)
          \/ \E d \in ViewDates : getDailySchedule(p, d)
          \/ \E d \in WeekStarts, n \in WeekLengths : getWeeklyDetailedSchedule(p, d, n)
    \/ Tick

SpecSchedule == Init /\ [][NextSchedule]_vars

(* A booking stored before ranges existed: a single slot, no end time    *)
LegacyReservation(u, date, timeSlot) ==
    [userId |-> u, date |-> date, startTime |-> NoLabel, endTime |-> NoLabel,
     timeSlot |-> timeSlot, duration |-> 0, players |-> {u}, status |-> "confirmed",
     paymentStatus |-> "pending"]

LegacySlots == {Pad(9), Pad(11)}

(* New range bookings and day views over a store that holds one legacy    *)
(* single-slot booking of today                                           *)
LegacyInputs ==
    [ConcInputs EXCEPT
        !.dates = {0, 1},
        !.ranges = {<<Pad(9), Pad(11)>>, <<Pad(10), Pad(12)>>, <<Pad(11), Pad(13)>>,
                    <<Pad(9), Pad(10)>>}]

InitLegacy ==
    /\ users = [u \in Accounts |->
                  IF u = "sa" THEN RegisteredUser("superadmin", TRUE, "homeowner")
                  ELSE IF u = "u1" THEN RegisteredUser("member", TRUE, "homeowner")
                  ELSE RegisteredUser("member", FALSE, "non-homeowner")]
    /\ \E t \in LegacySlots : reservations = <<LegacyReservation("u2", 0, t)>>
    /\ transactions = <<WelcomeBonus("u1"), WelcomeBonus("u2"), WelcomeBonus("sa")>>
    /\ paymentLogs = <<>>
    /\ clock = 1
    /\ proc = [p \in Procs |-> IdleProc("none")]
    /\ faults = 0
    /\ bal0 = [u \in Accounts |-> FREE_COINS_FOR_NEW_USER]

NextLegacy ==
    \E p \in {1} :
        \/ \E u \in LegacyInputs.actors, d \in LegacyInputs.dates,
               r \in LegacyInputs.ranges, pl \in LegacyInputs.rosters :
              createReservation(p, u, d, r[1], r[2], NoLabel, pl)
        \/ cr_findUser(p) \/ cr_unsettled(p) \/ cr_validate(p) \/ cr_insert(p)
        \/ cr_saveUser(p) \/ cr_saveTx(p)
        \/ \E d \in LegacyInputs.dates : getDailySchedule(p, d)
        \/ Respond(p)

SpecLegacy == InitLegacy /\ [][NextLegacy]_vars

(* Bookings, their cancellation and payment logs, one request at a time,  *)
(* while the clock moves on                                               *)
PayCancelInputs ==
    [ConcInputs EXCEPT
        !.ranges = {<<Pad(9), Pad(11)>>, <<Pad(11), Pad(13)>>},
        !.payers = {"u1", "u2"}]

NextPayCancel ==
    \/ \E p \in {1} :
          \/ \E u \in PayCancelInputs.actors, r \in PayCancelInputs.ranges,
                 pl \in PayCancelInputs.rosters :
                createReservation(p, u, 0, r[1], r[2], NoLabel, pl)
          \/ cr_findUser(p) \/ cr_unsettled(p) \/ cr_validate(p) \/ cr_insert(p)
          \/ cr_saveUser(p) \/ cr_saveTx(p)
          \/ \E u \in PayCancelInputs.actors, rid \in 1..MaxRes :
                cancelReservation(p, u, rid)
          \/ ca_saveRes(p) \/ ca_findUser(p) \/ ca_saveUser(p) \/ ca_saveTx(p)
          \/ \E u \in PayCancelInputs.payers, rid \in 1..MaxRes,
                 a \in PayCancelInputs.amounts :
                createPaymentLog(p, u, rid, a)
          \/ PaymentSteps(p)
          \/ Respond(p)
    \/ Tick

SpecPayCancel == Init /\ [][NextPayCancel]_vars

---------------------------------------------------------------------------
(* Properties *)

Answered(p, op, r) ==
    proc[p].pc = "responded" /\ proc[p].op = op /\ proc[p].resp = r

(* Two stored bookings share a date and their [start, end) ranges intersect *)
RangesOverlap(a, b) ==
    /\ a.date = b.date
    /\ parseHour(a.startTime) < parseHour(b.endTime)
    /\ parseHour(b.startTime) < parseHour(a.endTime)

(* C1: on every date the [start,end) ranges of the non-cancelled bookings  *)
(* are pairwise disjoint, in every state reachable by create, cancel and   *)
(* update calls.                                                           *)
C1_LiveBookingsDisjoint ==
    \A i, j \in 1..Len(reservations) :
        (i < j /\ Live(reservations[i]) /\ Live(reservations[j]))
            => ~RangesOverlap(reservations[i], reservations[j])

(* C2: two concurrent createReservation calls for overlapping ranges on    *)
(* one date never both answer Created with both bookings standing.         *)
C2_OverlappingCreatesNeverBothCommit ==
    \A p, q \in Procs :
        (/\ p # q
         /\ Answered(p, "create", "Created")
         /\ Answered(q, "create", "Created")
         /\ Live(reservations[proc[p].rid])
         /\ Live(reservations[proc[q].rid]))
            => ~RangesOverlap(reservations[proc[p].rid], reservations[proc[q].rid])

ValidRangeRequest(p) ==
    /\ proc[p].date >= Today
    /\ isTimeSlot(proc[p].startTime)
    /\ isTimeSlot(proc[p].endTime)
    /\ parseHour(proc[p].startTime) < parseHour(proc[p].endTime)

(* Some other non-cancelled booking [s,e) on the date has start < e, s < end *)
OverlapsStored(p) ==
    \E i \in (1..Len(reservations)) \ {proc[p].rid} :
        /\ Live(reservations[i])
        /\ reservations[i].date = proc[p].date
        /\ parseHour(proc[p].startTime) < parseHour(reservations[i].endTime)
        /\ parseHour(reservations[i].startTime) < parseHour(proc[p].endTime)

(* C3: a createReservation for a valid date and a valid range is answered  *)
(* SlotConflict if and only if a non-cancelled booking on that date        *)
(* overlaps the requested range; touching ranges do not conflict.          *)
C3_SlotConflictIffOverlap ==
    \A p \in Procs :
        (proc[p].pc = "responded" /\ proc[p].op = "create" /\ ValidRangeRequest(p))
            => (proc[p].resp = "SlotConflict" <=> OverlapsStored(p))

RECURSIVE LedgerSum(_, _)
LedgerSum(u, n) ==
    IF n = 0 THEN 0
    ELSE LET t == transactions[n]
             signed == IF t.userId # u \/ t.status # "approved" THEN 0
                       ELSE IF t.type \in {"earned", "granted"} THEN t.amount
                       ELSE IF t.type = "spent" THEN 0 - t.amount
                       ELSE 0
         IN  signed + LedgerSum(u, n - 1)

(* C4: with no request running, every account's stored balance equals     *)
(* the sum of its approved earned and granted ledger entries minus the sum *)
(* of its approved spent entries.                                          *)
C4_BalanceEqualsLedger ==
    AllIdle => \A u \in Accounts : users[u].coinBalance = LedgerSum(u, Len(transactions))

(* C5: a createReservation that answers anything but Created has stored no *)
(* booking and no ledger entry, and the account's balance is what the      *)
(* handler read.                                                           *)
C5_FailedCreateLeavesNothing ==
    \A p \in Procs :
        (proc[p].pc = "responded" /\ proc[p].op = "create" /\ proc[p].resp # "Created")
            => /\ proc[p].rid = 0
               /\ \A i \in 1..Len(transactions) :
                      transactions[i].referenceId = 0
                          \/ transactions[i].referenceId # proc[p].rid
               /\ proc[p].bal # NoBalance
                      => users[proc[p].actor].coinBalance = proc[p].bal

BalanceWrites == {"cr_saveUser", "ca_saveUser", "gr_saveUser", "de_saveUser"}

WrittenAccount(p) ==
    IF proc[p].pc = "ca_saveUser" THEN reservations[proc[p].rid].userId ELSE proc[p].actor

(* The debit (negative) or credit (positive) the handler is about to commit *)
Delta(p) ==
    IF proc[p].pc = "cr_saveUser" THEN 0 - TotalCost(proc[p].startTime, proc[p].endTime)
    ELSE IF proc[p].pc = "ca_saveUser" THEN RefundAmount(proc[p].rid)
    ELSE IF proc[p].pc = "gr_saveUser" THEN proc[p].amount
    ELSE 0 - proc[p].amount

(* C6: no balance update is lost: every committed debit or credit moves    *)
(* the stored balance by exactly its amount, whatever ran in between.      *)
C6_NoLostBalanceUpdate ==
    [][\A p \in Procs :
          (proc[p].pc \in BalanceWrites /\ proc'[p].pc \notin {proc[p].pc, "responded"})
              => users'[WrittenAccount(p)].coinBalance
                    = users[WrittenAccount(p)].coinBalance + Delta(p)]_vars

RECURSIVE LiveCost(_, _)
LiveCost(u, n) ==
    IF n = 0 THEN 0
    ELSE LET r == reservations[n]
         IN  (IF r.userId = u /\ Live(r) /\ ~IsExempt(u)
              THEN TotalCost(r.startTime, r.endTime) ELSE 0)
             + LiveCost(u, n - 1)

(* C7: when a cancel of a booking answers Cancelled, the debit of that     *)
(* booking is undone exactly: the owner's balance is the balance before    *)
(* the creates less the price of the owner's bookings still standing, so   *)
(* create followed by cancel restores the balance before the create, for   *)
(* every duration and for exempt and non-exempt owners.                    *)
C7_CreateThenCancelRestoresBalance ==
    \A p \in Procs :
        Answered(p, "cancel", "Cancelled")
            => LET owner == reservations[proc[p].rid].userId
               IN  users[owner].coinBalance
                      = bal0[owner] - LiveCost(owner, Len(reservations))

C7_LongBookingCancelled ==
    \E p \in Procs :
        /\ Answered(p, "cancel", "Cancelled")
        /\ reservations[proc[p].rid].userId = "u1"
        /\ reservations[proc[p].rid].duration = MaxDuration
        /\ \A i \in 1..Len(reservations) : ~Live(reservations[i])
        /\ users["u1"].coinBalance = bal0["u1"]

(* C8: no account's balance is negative in any reachable state, under any  *)
(* interleaving of createReservation and deductCoins debits.               *)
C8_BalanceNeverNegative == \A u \in Accounts : users[u].coinBalance >= 0

C8_RacingDebitsExceedBalance ==
    \E p, q \in Procs :
        /\ proc[p].pc = "cr_saveUser"
        /\ proc[q].pc = "de_saveUser"
        /\ proc[p].actor = proc[q].actor
        /\ users[proc[p].actor].coinBalance
              < TotalCost(proc[p].startTime, proc[p].endTime) + proc[q].amount

AllowedMove(a, b) ==
    \/ a = b
    \/ a = "pending" /\ b = "confirmed"
    \/ a = "confirmed" /\ b \in {"cancelled", "completed"}

(* C9: a booking's status only moves pending -> confirmed -> cancelled or  *)
(* completed; a cancelled or completed booking keeps its status.           *)
C9_StatusOnlyMovesForward ==
    [][\A i \in 1..Len(reservations) :
          AllowedMove(reservations[i].status, reservations'[i].status)]_vars

(* C10: a cancelReservation by the owner or an admin on a booking whose    *)
(* end time has passed is answered AlreadyCompleted at once, so that no    *)
(* status changes and no refund is credited.                               *)
C10_CancelAfterEndIsRefused ==
    [][\A p \in Procs :
          (/\ proc[p].pc = "idle"
           /\ proc'[p].op = "cancel"
           /\ Exists(proc'[p].rid)
           /\ MayTouch(proc'[p].actor, proc'[p].rid)
           /\ reservations[proc'[p].rid].status # "cancelled"
           /\ EndPassed(reservations[proc'[p].rid]))
              => (proc'[p].pc = "responded" /\ proc'[p].resp = "AlreadyCompleted")]_vars

(* C11: a cancelReservation on a booking that is already cancelled fails:  *)
(* sent by the owner or a superadmin it is answered AlreadyCancelled, sent *)
(* by anyone else Forbidden, and in both cases the answer comes at once    *)
(* with the bookings, the balances and the ledger unchanged.               *)
C11_CancelOfCancelledIsRefused ==
    [][\A p \in Procs :
          (/\ proc[p].pc = "idle"
           /\ proc'[p].op = "cancel"
           /\ Exists(proc'[p].rid)
           /\ reservations[proc'[p].rid].status = "cancelled")
              => /\ proc'[p].pc = "responded"
                 /\ proc'[p].resp = IF MayTouch(proc'[p].actor, proc'[p].rid)
                                    THEN "AlreadyCancelled" ELSE "Forbidden"
                 /\ UNCHANGED <<users, reservations, transactions>>]_vars

C11_OwnerCancelsTwice ==
    \E p \in Procs :
        /\ Answered(p, "cancel", "AlreadyCancelled")
        /\ reservations[proc[p].rid].status = "cancelled"
        /\ reservations[proc[p].rid].userId = proc[p].actor

(* C12: there is at most one payment log per (account, booking) pair, and  *)
(* a createPaymentLog that is answered while a log of its account and      *)
(* booking is already stored, whether it was sent after the first call or  *)
(* ran concurrently with it, is answered AlreadySettled and stores nothing.*)
C12_OnePaymentRecordPerPair ==
    /\ [](\A i, j \in 1..Len(paymentLogs) :
            i < j => ~(/\ paymentLogs[i].userId = paymentLogs[j].userId
                       /\ paymentLogs[i].reservationId = paymentLogs[j].reservationId))
    /\ [][\A p \in Procs :
             (/\ proc[p].pc # "responded"
              /\ proc'[p].pc = "responded"
              /\ proc'[p].op = "paylog"
              /\ HasLog(proc'[p].actor, proc'[p].rid))
                 => (proc'[p].resp = "AlreadySettled" /\ paymentLogs' = paymentLogs)]_vars

(* C14: the status of a payment log only changes from pending to paid or   *)
(* from pending to rejected; a paid or rejected log keeps its status.      *)
C14_PaymentStatusFinal ==
    [][\A i \in 1..Len(paymentLogs) :
          \/ paymentLogs'[i].status = paymentLogs[i].status
          \/ /\ paymentLogs[i].status = "pending"
             /\ paymentLogs'[i].status \in {"paid", "rejected"}]_vars

(* Granted entries that credit the coin request stored at place i *)
GrantsOf(i) ==
    {j \in 1..Len(transactions) :
        transactions[j].type = "granted" /\ transactions[j].referenceId = RequestRef(i)}

(* C13: a requested ledger entry changes status at most once, from pending *)
(* to approved or to rejected, and with no request running its account has *)
(* been credited exactly once if it is approved and not at all otherwise,  *)
(* however approveCoinRequest and rejectCoinRequest calls are repeated or  *)
(* interleaved.                                                            *)
C13_RequestResolvedOnce ==
    /\ [][\A i \in 1..Len(transactions) :
             transactions[i].type = "requested"
                => \/ transactions'[i].status = transactions[i].status
                   \/ /\ transactions[i].status = "pending"
                      /\ transactions'[i].status \in {"approved", "rejected"}]_vars
    /\ [](AllIdle =>
            /\ \A i \in 1..Len(transactions) :
                  transactions[i].type = "requested"
                     => Cardinality(GrantsOf(i))
                           = IF transactions[i].status = "approved" THEN 1 ELSE 0
            /\ \A u \in Accounts :
                  users[u].coinBalance = LedgerSum(u, Len(transactions)))

(* countStandard * rateStandard + countReduced * rateReduced of a roster *)
RawTotalPerHour(players) ==
    Cardinality({u \in players : users[u].homeownerStatus = "homeowner"}) * HOMEOWNER_RATE
        + Cardinality({u \in players : users[u].homeownerStatus = "non-homeowner"})
              * NON_HOMEOWNER_RATE

(* Sum of the numerators of the members' ratePerHour *)
RECURSIVE SumRateNum(_, _)
SumRateNum(pp, S) ==
    IF S = {} THEN 0
    ELSE LET u == CHOOSE x \in S : TRUE
         IN  pp[u].ratePerHour[1] + SumRateNum(pp, S \ {u})

Quoted(p) == Answered(p, "calculate", "Calculated")

(* C15: for every roster whose raw per-hour total is below the minimum,    *)
(* calculatePlayerPayments returns totalPerHour = MINIMUM_TOTAL exactly,   *)
(* and for every such roster with at least one member the members'         *)
(* ratePerHour add up to totalPerHour.                                     *)
C15_MinimumFloor ==
    \A p \in Procs :
        (Quoted(p) /\ RawTotalPerHour(proc[p].players) < MINIMUM_TOTAL)
            => LET calc == proc[p].data
                   pp == calc.playerPayments
                   den == Cardinality(proc[p].players)
               IN  /\ calc.summary.totalPerHour = MINIMUM_TOTAL
                   /\ DOMAIN pp = proc[p].players
                   /\ proc[p].players # {}
                          => /\ \A u \in DOMAIN pp : pp[u].ratePerHour[2] = den
                             /\ SumRateNum(pp, DOMAIN pp) = calc.summary.totalPerHour * den

C15_ThreeHomeownersQuoted ==
    \E p \in Procs :
        /\ Quoted(p)
        /\ proc[p].players = Accounts
        /\ RawTotalPerHour(Accounts) = 3 * HOMEOWNER_RATE
        /\ \A u \in Accounts : proc[p].data.playerPayments[u].ratePerHour = <<100, 3>>

ClassRate(u) ==
    IF users[u].homeownerStatus = "homeowner" THEN HOMEOWNER_RATE ELSE NON_HOMEOWNER_RATE

(* The fraction f = <<num, den>> equals a / b *)
FractionIs(f, a, b) == f[2] > 0 /\ f[1] * b = a * f[2]

OneOfEachClass(players) ==
    /\ Cardinality(players) = 2
    /\ RawTotalPerHour(players) = HOMEOWNER_RATE + NON_HOMEOWNER_RATE

(* C16: below the minimum every member of a roster is charged the rate of  *)
(* its class plus the same flat amount shortfall / rosterSize, whatever    *)
(* its class; at or above the minimum the class rates are charged          *)
(* unchanged. With one member of each class and 2 hours the rates are 37.5 *)
(* and 62.5 and grandTotal is 200.                                         *)
C16_FlatShortfallShare ==
    \A p \in Procs :
        (Quoted(p) /\ proc[p].players # {})
            => LET calc == proc[p].data
                   pp == calc.playerPayments
                   size == Cardinality(proc[p].players)
                   raw == RawTotalPerHour(proc[p].players)
                   shortfall == MINIMUM_TOTAL - raw
               IN  /\ \A u \in proc[p].players :
                         IF raw < MINIMUM_TOTAL
                         THEN FractionIs(pp[u].ratePerHour,
                                         ClassRate(u) * size + shortfall, size)
                         ELSE FractionIs(pp[u].ratePerHour, ClassRate(u), 1)
                   /\ (OneOfEachClass(proc[p].players) /\ calc.summary.duration = 2)
                         => /\ \A u \in proc[p].players :
                                  FractionIs(pp[u].ratePerHour,
                                             IF ClassRate(u) = HOMEOWNER_RATE
                                             THEN 375 ELSE 625, 10)
                            /\ calc.summary.grandTotal = 200

C16_ScenarioQuoted ==
    \E p \in Procs :
        /\ Quoted(p)
        /\ OneOfEachClass(proc[p].players)
        /\ proc[p].data.summary.duration = 2
        /\ proc[p].data.summary.homeownerRatePerHour = <<75, 2>>
        /\ proc[p].data.summary.nonHomeownerRatePerHour = <<125, 2>>

(* The allocation over the full roster of the booking a payment log names *)
AllocationOf(p) ==
    calculatePlayerPayments(reservations[proc[p].rid].players,
                            reservations[proc[p].rid].duration)

(* The claimed amount differs from total by more than 0.01 *)
DiffersByMoreThanEpsilon(amount, total) ==
    (IF amount > total THEN amount - total ELSE total - amount) * 100 > 1

BalanceBefore(p) ==
    IF proc[p].bal # NoBalance THEN proc[p].bal ELSE users[proc[p].actor].coinBalance

CreateAnswered(p) == proc[p].pc = "responded" /\ proc[p].op = "create"

(* C18: a createReservation by a non-exempt account succeeds whenever the  *)
(* date is today or later, the range is valid, no non-cancelled booking on *)
(* the date overlaps it, and the account has paid its fees, has no pending *)
(* payment log and has balance >= duration * unit cost: the booking is     *)
(* stored confirmed with paymentStatus pending and the balance is lowered  *)
(* by exactly duration * unit cost.                                        *)
C18_ValidCreateSucceeds ==
    \A p \in Procs :
        (/\ CreateAnswered(p)
         /\ ~IsExempt(proc[p].actor)
         /\ ValidRangeRequest(p)
         /\ ~OverlapsStored(p)
         /\ users[proc[p].actor].membershipFeesPaid
         /\ PendingLogs(proc[p].actor) = {}
         /\ BalanceBefore(p) >= TotalCost(proc[p].startTime, proc[p].endTime))
            => /\ proc[p].resp = "Created"
               /\ Exists(proc[p].rid)
               /\ reservations[proc[p].rid].status = "confirmed"
               /\ reservations[proc[p].rid].paymentStatus = "pending"
               /\ users[proc[p].actor].coinBalance
                      = BalanceBefore(p) - TotalCost(proc[p].startTime, proc[p].endTime)

(* Answers of the checks createReservation makes before the coin check *)
EarlierRefusals ==
    {"InvalidDate", "StartRequired", "InvalidRange", "SlotConflict", "FeesUnpaid",
     "UnsettledPayments"}

(* C19: a createReservation by a non-exempt account whose balance is less  *)
(* than duration * unit cost never succeeds and stores nothing: it is      *)
(* answered InsufficientBalance when it passes the checks that come before *)
(* the coin check (date, range, conflict, fees, unsettled payments), and   *)
(* by the first of those that fails otherwise; no booking and no ledger    *)
(* entry is written and the balance is unchanged.                          *)
C19_PoorAccountIsRefused ==
    /\ [](\A p \in Procs :
            (/\ CreateAnswered(p)
             /\ ~IsExempt(proc[p].actor)
             /\ BalanceBefore(p) < TotalCost(proc[p].startTime, proc[p].endTime))
                => /\ proc[p].resp \in EarlierRefusals \cup {"InsufficientBalance"}
                   /\ (/\ CreateCheck(proc[p].date, proc[p].startTime, proc[p].endTime)
                             = "ok"
                       /\ users[proc[p].actor].membershipFeesPaid
                       /\ PendingLogs(proc[p].actor) = {})
                          => proc[p].resp = "InsufficientBalance"
                   /\ proc[p].rid = 0
                   /\ users[proc[p].actor].coinBalance = BalanceBefore(p))
    /\ [][\A p \in Procs :
             (/\ proc'[p].op = "create"
              /\ ~IsExempt(proc'[p].actor)
              /\ (IF proc'[p].bal # NoBalance THEN proc'[p].bal
                  ELSE users[proc'[p].actor].coinBalance)
                    < TotalCost(proc'[p].startTime, proc'[p].endTime))
                => UNCHANGED <<users, reservations, transactions>>]_vars

C19_FiveCoinsOneHour ==
    \E p \in Procs :
        /\ Answered(p, "create", "InsufficientBalance")
        /\ BalanceBefore(p) = 5
        /\ TotalCost(proc[p].startTime, proc[p].endTime) = COURT_RESERVATION
        /\ reservations = <<>>

(* Ledger entries that reference the booking rid *)
EntriesOf(rid) == {i \in 1..Len(transactions) : transactions[i].referenceId = rid}

(* C20: a createReservation by an exempt (superadmin) account is never     *)
(* refused for its balance, leaves the balance unchanged whatever it       *)
(* answers, and when it succeeds has appended exactly one ledger entry,    *)
(* a spent entry of amount zero that references the booking.               *)
C20_ExemptCreateIsFree ==
    /\ [](\A p \in Procs :
            (CreateAnswered(p) /\ IsExempt(proc[p].actor))
                => /\ proc[p].resp # "InsufficientBalance"
                   /\ users[proc[p].actor].coinBalance = BalanceBefore(p)
                   /\ proc[p].resp = "Created"
                         => /\ Cardinality(EntriesOf(proc[p].rid)) = 1
                            /\ \A i \in EntriesOf(proc[p].rid) :
                                  transactions[i]
                                     = CoinTx(proc[p].actor, "spent", 0, proc[p].rid))
    /\ [][\A p \in Procs :
             (proc'[p].op = "create" /\ IsExempt(proc'[p].actor))
                => /\ users' = users
                   /\ \/ transactions' = transactions
                      \/ /\ proc'[p].resp = "Created"
                         /\ transactions'
                               = Append(transactions,
                                        CoinTx(proc'[p].actor, "spent", 0, proc'[p].rid))]_vars

C20_ExemptBooksBeyondBalance ==
    \E p \in Procs :
        /\ Answered(p, "create", "Created")
        /\ IsExempt(proc[p].actor)
        /\ users[proc[p].actor].coinBalance = 5
        /\ TotalCost(proc[p].startTime, proc[p].endTime) > 5

(* Answers of the checks createReservation makes before the unsettled gate *)
RefusalsBeforeGate ==
    {"InvalidDate", "StartRequired", "InvalidRange", "SlotConflict", "FeesUnpaid"}

(* C21: while a non-exempt account has a pending payment log, none of its  *)
(* createReservation calls books or debits anything: a call that passes    *)
(* the checks of date, range, conflict and fees is answered                *)
(* UnsettledPayments, the others by the first check that fails. An exempt  *)
(* account is never answered UnsettledPayments.                            *)
C21_PendingPaymentsBlockCreate ==
    \A p \in Procs :
        CreateAnswered(p)
            => IF IsExempt(proc[p].actor)
               THEN proc[p].resp # "UnsettledPayments"
               ELSE PendingLogs(proc[p].actor) # {}
                       => /\ proc[p].resp \in RefusalsBeforeGate \cup {"UnsettledPayments"}
                          /\ (/\ CreateCheck(proc[p].date, proc[p].startTime,
                                              proc[p].endTime) = "ok"
                              /\ users[proc[p].actor].membershipFeesPaid)
                                 => proc[p].resp = "UnsettledPayments"
                          /\ proc[p].rid = 0
                          /\ users[proc[p].actor].coinBalance = BalanceBefore(p)

(* C22: a cancelReservation on a stored booking by an account that is      *)
(* neither its owner nor a superadmin is answered Forbidden at once, and   *)
(* the bookings, the balances and the ledger are unchanged.                *)
C22_StrangerCancelIsForbidden ==
    [][\A p \in Procs :
          (/\ proc[p].pc = "idle"
           /\ proc'[p].op = "cancel"
           /\ Exists(proc'[p].rid)
           /\ ~IsExempt(proc'[p].actor)
           /\ reservations[proc'[p].rid].userId # proc'[p].actor)
              => /\ proc'[p].pc = "responded"
                 /\ proc'[p].resp = "Forbidden"
                 /\ UNCHANGED <<users, reservations, transactions>>]_vars

C22_MemberCancelsAnothersLiveBooking ==
    \E p \in Procs :
        /\ Answered(p, "cancel", "Forbidden")
        /\ ~IsExempt(proc[p].actor)
        /\ reservations[proc[p].rid].userId # proc[p].actor
        /\ reservations[proc[p].rid].status = "confirmed"

(* C23: a day view answered by getDailySchedule lists the 18 slots from   *)
(* 05:00 to 22:00 in order, and a slot is unavailable exactly when some   *)
(* booking of that date that is not cancelled has start <= slot < end; in *)
(* particular the slot at a booking's end label is not taken by it        *)
Covers(r, h) == parseHour(r.startTime) <= h /\ h < parseHour(r.endTime)

C23_DayViewMarksHalfOpenRanges ==
    \A p \in Procs :
        Answered(p, "daily", "Schedule") =>
            /\ Len(proc[p].timeSlots) = 18
            /\ \A i \in 1..18 :
                  /\ proc[p].timeSlots[i].timeSlot = Pad(i + 4)
                  /\ proc[p].timeSlots[i].isAvailable =
                        ~\E k \in 1..Len(reservations) :
                            /\ reservations[k].date = proc[p].date
                            /\ reservations[k].status # "cancelled"
                            /\ Covers(reservations[k], i + 4)

(* A view of a day with a live 09:00-11:00 booking and a cancelled one:   *)
(* 09:00 and 10:00 are taken, 11:00 is free                               *)
C23_EndLabelStaysFree ==
    \E p \in Procs :
        /\ Answered(p, "daily", "Schedule")
        /\ \E k \in 1..Len(reservations) :
              /\ reservations[k].date = proc[p].date
              /\ reservations[k].status # "cancelled"
              /\ reservations[k].startTime = Pad(9)
              /\ reservations[k].endTime = Pad(11)
        /\ \E k \in 1..Len(reservations) :
              /\ reservations[k].date = proc[p].date
              /\ reservations[k].status = "cancelled"
        /\ ~proc[p].timeSlots[5].isAvailable
        /\ ~proc[p].timeSlots[6].isAvailable
        /\ proc[p].timeSlots[7].isAvailable

(* C24: a weekly view asked with a day count from 1 to 14 is answered     *)
(* with a schedule whatever its start date, also one in the past: the     *)
(* answer holds, in ascending order, one day view for each day of         *)
(* [startDate, startDate + numDays) that is today or later, and none for  *)
(* a day before today                                                     *)
IsDayView(view, date) ==
    /\ view.date = date
    /\ Len(view.timeSlots) = 18
    /\ \A i \in 1..18 :
          /\ view.timeSlots[i].timeSlot = Pad(i + 4)
          /\ view.timeSlots[i].isAvailable =
                ~\E k \in 1..Len(reservations) :
                    /\ reservations[k].date = date
                    /\ reservations[k].status # "cancelled"
                    /\ Covers(reservations[k], i + 4)

C24_WeeklyViewSkipsPastDays ==
    [][\A p \in Procs :
          (/\ proc[p].pc = "idle"
           /\ proc'[p].pc = "responded"
           /\ proc'[p].op = "weekly"
           /\ proc'[p].numDays \in 1..14) =>
              LET first == IF proc'[p].date < Today THEN Today ELSE proc'[p].date
                  last == proc'[p].date + proc'[p].numDays - 1
                  shown == proc'[p].days
              IN  /\ proc'[p].resp = "Schedule"
                  /\ Len(shown) = (IF last < first THEN 0 ELSE last - first + 1)
                  /\ \A i \in 1..Len(shown) : IsDayView(shown[i], first + i - 1)]_vars

(* Three days asked from yesterday on: the answer shows today and         *)
(* tomorrow only                                                          *)
C24_PastStartShowsTodayOnwards ==
    \E p \in Procs :
        /\ Answered(p, "weekly", "Schedule")
        /\ proc[p].date = Today - 1
        /\ proc[p].numDays = 3
        /\ Len(proc[p].days) = 2
        /\ proc[p].days[1].date = Today
        /\ proc[p].days[2].date = Today + 1
        /\ \E i \in 1..18 : ~proc[p].days[1].timeSlots[i].isAvailable

(* C25: for every booking, the refunds credited for it in the ledger      *)
(* (earned entries that reference it) never add up to more than the       *)
(* debits made for it (spent entries that reference it), after any        *)
(* sequence of create, cancel and update calls                            *)
RECURSIVE BookingSum(_, _, _)
BookingSum(rid, type, n) ==
    IF n = 0 THEN 0
    ELSE (IF transactions[n].referenceId = rid /\ transactions[n].type = type
          THEN transactions[n].amount ELSE 0)
         + BookingSum(rid, type, n - 1)

C25_RefundsWithinDebit ==
    \A rid \in 1..Len(reservations) :
        BookingSum(rid, "earned", Len(transactions))
            <= BookingSum(rid, "spent", Len(transactions))

(* C26: of two cancelReservation calls for one booking that run at the    *)
(* same time at most one answers Cancelled, and the booking is refunded   *)
(* at most once: its ledger never holds two refund entries                *)
RefundsOf(rid) ==
    {i \in 1..Len(transactions) :
        transactions[i].referenceId = rid /\ transactions[i].type = "earned"}

C26_ConcurrentCancelsRefundOnce ==
    /\ \A p, q \in Procs :
          (/\ p # q
           /\ Answered(p, "cancel", "Cancelled")
           /\ Answered(q, "cancel", "Cancelled")) => proc[p].rid # proc[q].rid
    /\ \A rid \in 1..Len(reservations) : Cardinality(RefundsOf(rid)) <= 1

(* C27: a live legacy single-slot booking at slot t on a date conflicts   *)
(* with a valid range request [start, end) on that date exactly when      *)
(* start <= t < end: when no ranged booking overlaps the request, the     *)
(* request is refused for a conflict, by the controller or by the         *)
(* pre-save check, if and only if its range covers t                      *)
IsLegacy(r) == r.startTime = NoLabel /\ r.endTime = NoLabel /\ r.timeSlot # NoLabel

ConflictAnswers == {"SlotConflict", "PreSaveConflict"}

C28_NoPaymentLogForCancelledBooking ==
    [][Len(paymentLogs') > Len(paymentLogs) =>
          reservations[paymentLogs'[Len(paymentLogs')].reservationId].status
              # "cancelled"]_vars

(* C29: for every date and every slot from 05:00 to 21:00, the day view   *)
(* shows the slot available if and only if a createReservation for the    *)
(* one hour from that slot on would pass both conflict checks, the        *)
(* controller's overlap query and the query of the pre-save hook          *)
WouldConflict(date, h) ==
    \E i \in 1..Len(reservations) :
        \/ RangeOverlapQuery(reservations[i], date, Pad(h), Pad(h + 1))
        \/ PreSaveQuery(reservations[i], date, Pad(h), Pad(h + 1), NoLabel)

C29_DayViewAgreesWithCreate ==
    \A date \in ScheduleInputs.dates, i \in 1..17 :
        DaySlots(date)[i].isAvailable = ~WouldConflict(date, i + 4)

(* C30: for every booking, the amounts of its payment logs whose status   *)
(* is not rejected never add up to more than the booking's grand total,   *)
(* the per-hour total of its roster times its duration                    *)
RECURSIVE LoggedFor(_, _)
LoggedFor(rid, n) ==
    IF n = 0 THEN <<0, 1>>
    ELSE LET rest == LoggedFor(rid, n - 1)
             log == paymentLogs[n]
         IN  IF log.reservationId = rid /\ log.status # "rejected"
             THEN <<rest[1] * log.amount[2] + log.amount[1] * rest[2],
                    rest[2] * log.amount[2]>>
             ELSE rest

GrandTotalOf(rid) ==
    calculatePlayerPayments(reservations[rid].players,
                            reservations[rid].duration).summary.grandTotal

C30_LoggedWithinGrandTotal ==
    \A rid \in 1..Len(reservations) :
        LET logged == LoggedFor(rid, Len(paymentLogs))
        IN  logged[1] <= GrandTotalOf(rid) * logged[2]

(* C31: a cancelled booking no longer occupies its range. A valid range   *)
(* request on a date where every other booking that is not cancelled has  *)
(* a disjoint range and no timeSlot is never answered with a conflict,    *)
(* whatever cancelled bookings the date holds; and a day view shows every *)
(* slot that only cancelled bookings cover as available                   *)
OnlyCancelledInTheWay(p) ==
    ~\E i \in (1..Len(reservations)) \ {proc[p].rid} :
        /\ reservations[i].status # "cancelled"
        /\ reservations[i].date = proc[p].date
        /\ \/ reservations[i].timeSlot # NoLabel
           \/ /\ parseHour(proc[p].startTime) < parseHour(reservations[i].endTime)
              /\ parseHour(reservations[i].startTime) < parseHour(proc[p].endTime)

C31_CancelledRangeIsFree ==
    \A p \in Procs :
        /\ (/\ proc[p].pc = "responded"
            /\ proc[p].op = "create"
            /\ ValidRangeRequest(p)
            /\ OnlyCancelledInTheWay(p)) => proc[p].resp \notin ConflictAnswers
        /\ Answered(p, "daily", "Schedule") =>
              \A i \in 1..18 :
                  (~\E k \in 1..Len(reservations) :
                       /\ reservations[k].status # "cancelled"
                       /\ reservations[k].date = proc[p].date
                       /\ Covers(reservations[k], i + 4))
                      => proc[p].timeSlots[i].isAvailable

(* A booking is created over the range of a cancelled booking of the same *)
(* date                                                                   *)
C31_RebookedAfterCancel ==
    \E p \in Procs :
        /\ Answered(p, "create", "Created")
        /\ \E i \in (1..Len(reservations)) \ {proc[p].rid} :
              /\ reservations[i].status = "cancelled"
              /\ reservations[i].date = proc[p].date
              /\ reservations[i].startTime = proc[p].startTime
              /\ reservations[i].endTime = proc[p].endTime

(* C32: a payment log is only ever stored for a booking by an account of  *)
(* the booking's roster, at a time when the booking's end has passed; a   *)
(* createPaymentLog for an existing booking by an account outside the     *)
(* roster is answered NotInRoster, one by a roster member before the end  *)
(* is answered NotCompleted, and neither stores anything                  *)
EndIsPast(r) ==
    r.date < Now.day \/ (r.date = Now.day /\ parseHour(r.endTime) <= Now.hour)

C32_LogsOnlyByRosterAfterEnd ==
    [][/\ Len(paymentLogs') > Len(paymentLogs) =>
             LET log == paymentLogs'[Len(paymentLogs')]
             IN  /\ log.reservationId \in 1..Len(reservations)
                 /\ log.userId \in reservations[log.reservationId].players
                 /\ EndIsPast(reservations[log.reservationId])
       /\ \A p \in Procs :
             (/\ proc[p].pc = "idle"
              /\ proc'[p].op = "paylog"
              /\ proc'[p].amount # 0
              /\ proc'[p].rid \in 1..Len(reservations)) =>
                 LET r == reservations[proc'[p].rid]
                 IN  /\ proc'[p].actor \notin r.players =>
                           /\ proc'[p].pc = "responded"
                           /\ proc'[p].resp = "NotInRoster"
                     /\ (proc'[p].actor \in r.players /\ ~EndIsPast(r)) =>
                           /\ proc'[p].pc = "responded"
                           /\ proc'[p].resp = "NotCompleted"
       /\ \A p \in Procs :
             (proc'[p].pc = "responded" /\ proc[p].pc # "responded"
                 /\ proc'[p].resp \in {"NotInRoster", "NotCompleted"}) =>
                    paymentLogs' = paymentLogs]_vars

(* Both outcomes for one booking: a roster member's log is stored after   *)
(* the end, and the request of an account outside the roster is refused   *)
C32_RosterMemberLogsAfterEnd ==
    \E p \in Procs :
        /\ Answered(p, "paylog", "NotInRoster")
        /\ \E i \in 1..Len(paymentLogs) :
              /\ paymentLogs[i].reservationId = proc[p].rid
              /\ paymentLogs[i].userId \in reservations[proc[p].rid].players
              /\ paymentLogs[i].userId # proc[p].actor

(* C33: when the lookup of the account's pending payment logs throws      *)
(* during createReservation, the request ends there with a storage error: *)
(* it does not go on to its later steps, so it books and debits nothing   *)
C33_FailedLookupStopsCreate ==
    [][\A p \in Procs :
          (proc[p].pc = "cr_unsettled" /\ faults' = faults + 1) =>
              /\ proc'[p].pc = "responded"
              /\ proc'[p].resp = "StorageError"
              /\ UNCHANGED <<users, reservations, transactions>>]_vars

(* C34: the refund of a cancelled booking goes to the booking's owner,    *)
(* whoever cancels. The balance write of a cancel adds the booking's      *)
(* price to the owner's balance and changes no other account; the ledger  *)
(* write appends one earned entry for the owner that references the       *)
(* booking, of the price, or of zero for an exempt owner whose balance is *)
(* never written; so an admin who cancels another account's booking       *)
(* keeps its own balance and ledger                                       *)
PriceOf(rid) == reservations[rid].duration * COURT_RESERVATION

C34_RefundGoesToOwner ==
    [][\A p \in Procs :
          (proc[p].op = "cancel" /\ proc'[p].pc # proc[p].pc) =>
              LET rid == proc[p].rid
                  owner == reservations[rid].userId
                  exempt == users[owner].role = "superadmin"
              IN  /\ proc[p].pc = "ca_findUser" =>
                        /\ UNCHANGED <<users, transactions>>
                        /\ exempt => proc'[p].pc = "ca_saveTx"
                  /\ proc[p].pc = "ca_saveUser" =>
                        /\ ~exempt
                        /\ users'[owner].coinBalance
                              = users[owner].coinBalance + PriceOf(rid)
                        /\ \A u \in Accounts \ {owner} : users'[u] = users[u]
                        /\ transactions' = transactions
                  /\ proc[p].pc = "ca_saveTx" =>
                        /\ users' = users
                        /\ transactions' =
                              Append(transactions,
                                     [userId |-> owner, type |-> "earned",
                                      amount |-> IF exempt THEN 0 ELSE PriceOf(rid),
                                      referenceId |-> rid, status |-> "approved"])]_vars

(* The superadmin has cancelled u1's two-hour booking: u1 is back at 100  *)
(* with a refund entry of 20, the superadmin still has 100 and no entry   *)
(* for the booking                                                        *)
C34_AdminCancelsMembersBooking ==
    \E p \in Procs :
        /\ Answered(p, "cancel", "Cancelled")
        /\ proc[p].actor = "sa"
        /\ reservations[proc[p].rid].userId = "u1"
        /\ users["u1"].coinBalance = FREE_COINS_FOR_NEW_USER
        /\ users["sa"].coinBalance = FREE_COINS_FOR_NEW_USER
        /\ transactions[Len(transactions)] =
              [userId |-> "u1", type |-> "earned", amount |-> 2 * COURT_RESERVATION,
               referenceId |-> proc[p].rid, status |-> "approved"]
        /\ \A i \in 1..Len(transactions) :
              transactions[i].userId = "sa" => transactions[i].referenceId = 0

(* C35: createReservation reports the first precondition that fails, in   *)
(* the order InvalidDate, InvalidRange, SlotConflict, FeesUnpaid,         *)
(* UnsettledPayments, InsufficientBalance. A range request for a past     *)
(* date is answered InvalidDate at once; one for today or later is        *)
(* answered InvalidRange when its range is invalid, else SlotConflict     *)
(* when a booking that is not cancelled overlaps it, else FeesUnpaid when *)
(* the account's fees are unpaid, else UnsettledPayments when the         *)
(* non-exempt account has a pending payment log, else InsufficientBalance *)
(* when its balance is below the price, and with none of the six when     *)
(* none of them fails                                                     *)
PreconditionAnswers ==
    {"InvalidDate", "InvalidRange", "SlotConflict", "FeesUnpaid", "UnsettledPayments",
     "InsufficientBalance"}

RangeRequest(p) == proc[p].startTime # NoLabel /\ proc[p].endTime # NoLabel

FirstFailureReported(p) ==
    LET u == proc[p].actor
        exempt == users[u].role = "superadmin"
        badRange == \/ ~isTimeSlot(proc[p].startTime)
                    \/ ~isTimeSlot(proc[p].endTime)
                    \/ parseHour(proc[p].endTime) <= parseHour(proc[p].startTime)
        pending == \E i \in 1..Len(paymentLogs) :
                      paymentLogs[i].userId = u /\ paymentLogs[i].status = "pending"
        price == (parseHour(proc[p].endTime) - parseHour(proc[p].startTime))
                    * COURT_RESERVATION
    IN  IF badRange THEN proc[p].resp = "InvalidRange"
        ELSE IF OverlapsStored(p) THEN proc[p].resp = "SlotConflict"
        ELSE IF proc[p].resp = "SlotConflict" THEN TRUE
        ELSE IF ~users[u].membershipFeesPaid THEN proc[p].resp = "FeesUnpaid"
        ELSE IF ~exempt /\ pending THEN proc[p].resp = "UnsettledPayments"
        ELSE IF ~exempt /\ BalanceBefore(p) < price
        THEN proc[p].resp = "InsufficientBalance"
        ELSE proc[p].resp \notin PreconditionAnswers

C35_FirstFailingPreconditionReported ==
    /\ [](\A p \in Procs :
            (CreateAnswered(p) /\ RangeRequest(p) /\ proc[p].date >= Today)
                => FirstFailureReported(p))
    /\ [][\A p \in Procs :
            (/\ proc[p].pc = "idle"
             /\ proc'[p].op = "create"
             /\ proc'[p].date < Today) =>
                /\ proc'[p].pc = "responded"
                /\ proc'[p].resp = "InvalidDate"]_vars

(* The account with unpaid fees asks for a range that overlaps a booking: *)
(* the answer is SlotConflict                                             *)
C35_ConflictBeforeFees ==
    \E p \in Procs :
        /\ Answered(p, "create", "SlotConflict")
        /\ RangeRequest(p)
        /\ ~users[proc[p].actor].membershipFeesPaid
        /\ OverlapsStored(p)

====
